---- MODULE Spec2Model ----
(***************************************************************************)
(* Model of the classification-and-tagging core of api-secundaria-mvp:     *)
(*   app/services/tag_analyzer.py    TagAnalyzer                           *)
(*   app/services/file_processor.py  FileProcessor                         *)
(*   app/services/vision_service.py  VisionService                         *)
(*   app/config.py                   Config                                *)
(* Tags and media types are strings; str.lower, str.startswith,            *)
(* str.endswith and the ordering of strings are computed character by      *)
(* character over the printable ASCII range.                               *)
(***************************************************************************)
EXTENDS Integers, Sequences, FiniteSets, TLC

VARIABLES
    max_tags,   \* TagAnalyzer.max_tags, read once from config.MAX_TAGS_PER_FILE
    vision_flag,   \* config.GOOGLE_CLOUD_VISION_ENABLED
    vision_init,   \* how the construction of the remote client ended
    enabled,    \* VisionService.enabled
    client,     \* VisionService.client: "None" or "client"
    req,        \* the call a client makes: the operation, its arguments and
                \* what the file system and the remote service answer during it
    last,       \* the call once made: its result, whether it raised, and the
                \* I/O it performed, in order
    calls,      \* the number of calls completed since the services were built
    workers,    \* the requests handled concurrently: for each worker thread
                \* its position in the handler and the locals of the handler
    files_secondary,   \* the table of FileModel rows, by id
    utcnow      \* the clock read by datetime.now() and datetime.utcnow()

vars ==
    <<max_tags, vision_flag, vision_init, enabled, client, req, last, calls, workers,
      files_secondary, utcnow>>

-----------------------------------------------------------------------------
(* Bounds of the model *)

\* longest raw tag list handed to the tag pipeline
MaxLen == 3
\* configured maximum tag counts 1..SmallMaxTags are explored beside the default
SmallMaxTags == 2
\* longest sequence of calls made on the augmenter after its construction
MaxCalls == 3
\* longest sequence of requests made on the routes of the stored files
MaxOps == 3
\* largest number of rows the table holds at a time
MaxRecords == 2

-----------------------------------------------------------------------------
(* Python str primitives over printable ASCII *)

\* code points 32..95 and 97..126 (the backquote, 96, cannot be written in a
\* string and occurs in no modelled input)
AsciiLow == " !\"#$%&'()*+,-./0123456789:;<=>?@ABCDEFGHIJKLMNOPQRSTUVWXYZ[\\]^_"

AsciiHigh == "abcdefghijklmnopqrstuvwxyz{|}~"

CodePoints == (32..95) \cup (97..126)

\* chr(n)
Chr(n) == IF n <= 95 THEN SubSeq(AsciiLow, n - 31, n - 31) ELSE SubSeq(AsciiHigh, n - 96, n - 96)

OrdTable == [c \in {Chr(n) : n \in CodePoints} |-> CHOOSE n \in CodePoints : Chr(n) = c]

\* ord(c)
Ord(c) == OrdTable[c]

\* str.lower() of one character: A..Z are moved to a..z; the characters
\* outside ASCII that occur (in keyword tables) are lower-case already
LowerChar(c) ==
    IF c \in DOMAIN OrdTable /\ Ord(c) >= 65 /\ Ord(c) <= 90 THEN Chr(Ord(c) + 32) ELSE c

RECURSIVE Lower(_)
\* str.lower()
Lower(s) ==
    IF Len(s) = 0 THEN ""
    ELSE LowerChar(SubSeq(s, 1, 1)) \o Lower(SubSeq(s, 2, Len(s)))

RECURSIVE StrLess(_, _)
\* s < t in Python's ordering of str (code point by code point, a proper
\* prefix sorts first)
StrLess(s, t) ==
    IF Len(t) = 0 THEN FALSE
    ELSE IF Len(s) = 0 THEN TRUE
    ELSE LET a == Ord(SubSeq(s, 1, 1))
             b == Ord(SubSeq(t, 1, 1))
         IN  IF a # b THEN a < b
             ELSE StrLess(SubSeq(s, 2, Len(s)), SubSeq(t, 2, Len(t)))

\* s.startswith(p)
StartsWith(s, p) == Len(s) >= Len(p) /\ SubSeq(s, 1, Len(p)) = p

\* s.endswith(p)
EndsWith(s, p) == Len(s) >= Len(p) /\ SubSeq(s, Len(s) - Len(p) + 1, Len(s)) = p

\* sub in s, for two str
Contains(s, sub) ==
    \E i \in 1..(Len(s) - Len(sub) + 1) : SubSeq(s, i, i + Len(sub) - 1) = sub

RECURSIVE CountChar(_, _)
\* s.count(c) for a one-character c
CountChar(s, c) ==
    IF Len(s) = 0 THEN 0
    ELSE (IF SubSeq(s, 1, 1) = c THEN 1 ELSE 0) + CountChar(SubSeq(s, 2, Len(s)), c)

RECURSIVE ReplaceChar(_, _, _)
\* s.replace(old, new) for one-character old and new
ReplaceChar(s, old, new) ==
    IF Len(s) = 0 THEN ""
    ELSE (IF SubSeq(s, 1, 1) = old THEN new ELSE SubSeq(s, 1, 1))
            \o ReplaceChar(SubSeq(s, 2, Len(s)), old, new)

\* x in seq, for a list
InList(x, seq) == \E i \in 1..Len(seq) : seq[i] = x

\* dict.get(key, default)
Get(dict, key, default) == IF key \in DOMAIN dict THEN dict[key] ELSE default

-----------------------------------------------------------------------------
(* app/config.py *)

MAX_TAGS_DEFAULT == 15

\* values of MAX_TAGS_PER_FILE the environment may set (non-negative: the
\* behaviour for a negative maximum is left unspecified)
MaxTagsChoices == (1..SmallMaxTags) \cup {MAX_TAGS_DEFAULT}

-----------------------------------------------------------------------------
(* app/services/tag_analyzer.py *)

\* a stop list without the sentinel of the document and text analyzers
COMMON_TAGS_TO_REMOVE_WithoutError == {"unknown", "other", "undefined"}

COMMON_TAGS_TO_REMOVE == {"unknown", "error", "other", "undefined"}

SynonymKeys ==
    {"jpg", "jpeg", "png", "gif", "pic", "picture", "photo", "img",
     "movie", "clip", "sound", "music", "doc", "paper", "file", "code",
     "script", "dev", "frontend", "backend"}

\* a synonym table whose value 'pic' is itself rewritten: photo -> pic -> image
TAG_SYNONYMS_Chained ==
    [k \in SynonymKeys |->
        CASE k = "photo" -> "pic"
          [] k \in {"jpg", "jpeg"} -> "jpeg"
          [] k \in {"pic", "picture", "img"} -> "image"
          [] OTHER -> k]

TAG_SYNONYMS ==
    [k \in {"jpg", "jpeg", "png", "gif", "pic", "picture", "photo", "img",
            "movie", "clip", "sound", "music", "doc", "paper", "file", "code",
            "script", "dev", "frontend", "backend"} |->
        CASE k = "jpg" -> "jpeg"
          [] k = "jpeg" -> "jpeg"
          [] k = "png" -> "png"
          [] k = "gif" -> "gif"
          [] k \in {"pic", "picture", "photo", "img"} -> "image"
          [] k \in {"movie", "clip"} -> "video"
          [] k \in {"sound", "music"} -> "audio"
          [] k \in {"doc", "paper", "file"} -> "document"
          [] k \in {"code", "script"} -> "programming"
          [] k = "dev" -> "development"
          [] k = "frontend" -> "front-end"
          [] k = "backend" -> "back-end"]

TAG_PRIORITY ==
    [k \in {"image", "video", "audio", "document", "code", "programming",
            "python", "javascript", "react", "high-resolution", "4k", "hd",
            "pdf", "web", "frontend", "backend"} |->
        CASE k \in {"image", "video", "audio", "document"} -> 10
          [] k \in {"code", "programming"} -> 9
          [] k \in {"python", "javascript", "react"} -> 8
          [] k \in {"high-resolution", "4k", "hd"} -> 7
          [] k = "pdf" -> 6
          [] k \in {"web", "frontend", "backend"} -> 5]

RECURSIVE normalize_tags_LowerOnly(_)
\* a first stage that lower-cases the tags and leaves synonyms as they are
normalize_tags_LowerOnly(tags) ==
    IF tags = <<>> THEN <<>>
    ELSE <<Lower(Head(tags))>> \o normalize_tags_LowerOnly(Tail(tags))

RECURSIVE normalize_tags(_)
\* lower-case each tag, then replace it by its synonym if it has one
normalize_tags(tags) ==
    IF tags = <<>> THEN <<>>
    ELSE LET tag_lower == Lower(Head(tags))
         IN  <<Get(TAG_SYNONYMS, tag_lower, tag_lower)>> \o normalize_tags(Tail(tags))

RECURSIVE filter_loop(_, _, _)
\* the loop of filter_tags over the rest of the list, with the seen set and
\* the filtered list built so far
filter_loop(tags, seen, filtered) ==
    IF tags = <<>> THEN filtered
    ELSE LET tag_lower == Lower(Head(tags))
         IN  IF tag_lower \notin seen /\ tag_lower \notin COMMON_TAGS_TO_REMOVE
             THEN filter_loop(Tail(tags), seen \cup {tag_lower}, Append(filtered, tag_lower))
             ELSE filter_loop(Tail(tags), seen, filtered)

filter_tags(tags) == filter_loop(tags, {}, <<>>)

\* the sort key of prioritize_tags: (TAG_PRIORITY.get(t, 0), t)
PriorityKey(t) == <<Get(TAG_PRIORITY, t, 0), t>>

\* a comparison of keys whose ties in priority go the other way: the sort
\* then lists equal priorities in ascending order of the text
KeyLess_AscendingTies(k1, k2) == k1[1] < k2[1] \/ (k1[1] = k2[1] /\ StrLess(k2[2], k1[2]))

\* a comparison of keys that looks at the priority alone: the stable sort
\* then leaves equal priorities in the order of the input
KeyLess_PriorityOnly(k1, k2) == k1[1] < k2[1]

\* k1 < k2 for two (int, str) tuples
KeyLess(k1, k2) == k1[1] < k2[1] \/ (k1[1] = k2[1] /\ StrLess(k1[2], k2[2]))

RECURSIVE InsertDesc(_, _)
\* x placed after every element whose key is not smaller: a stable insertion
InsertDesc(x, sorted) ==
    IF sorted = <<>> THEN <<x>>
    ELSE IF KeyLess(PriorityKey(Head(sorted)), PriorityKey(x))
         THEN <<x>> \o sorted
         ELSE <<Head(sorted)>> \o InsertDesc(x, Tail(sorted))

RECURSIVE SortedDesc(_)
\* sorted(tags, key=PriorityKey, reverse=True): stable, descending
SortedDesc(tags) ==
    IF tags = <<>> THEN <<>>
    ELSE InsertDesc(tags[Len(tags)], SortedDesc(SubSeq(tags, 1, Len(tags) - 1)))

\* seq[:n] for n >= 0
Take(seq, n) == SubSeq(seq, 1, IF n < Len(seq) THEN n ELSE Len(seq))

\* prioritize_tags without the slice [:max_tags]
prioritize_tags_Unlimited(tags, maxTags) == SortedDesc(tags)

prioritize_tags(tags, maxTags) == Take(SortedDesc(tags), maxTags)

\* the pipeline with the third stage first: prioritize, normalize, filter
process_tags_PrioritizeFirst(raw_tags, maxTags) ==
    filter_tags(normalize_tags(prioritize_tags(raw_tags, maxTags)))

\* the pipeline with stages 1 and 2 swapped: filter, then normalize
process_tags_FilterFirst(raw_tags, maxTags) ==
    prioritize_tags(normalize_tags(filter_tags(raw_tags)), maxTags)

process_tags(raw_tags, maxTags) ==
    LET normalized == normalize_tags(raw_tags)
        filtered == filter_tags(normalized)
    IN  prioritize_tags(filtered, maxTags)

RECURSIVE ExtendAll(_)
\* the loop of merge_tags: all_tags.extend(tags) for each list, in call order
ExtendAll(tag_lists) ==
    IF tag_lists = <<>> THEN <<>>
    ELSE Head(tag_lists) \o ExtendAll(Tail(tag_lists))

\* merge_tags that keeps only the first of its lists
merge_tags_FirstOnly(tag_lists, maxTags) ==
    process_tags(IF tag_lists = <<>> THEN <<>> ELSE Head(tag_lists), maxTags)

merge_tags(tag_lists, maxTags) == process_tags(ExtendAll(tag_lists), maxTags)

add_custom_tags(existing_tags, custom_tags, maxTags) ==
    merge_tags(<<existing_tags, custom_tags>>, maxTags)

-----------------------------------------------------------------------------
(* app/services/vision_service.py *)

\* config.MIN_TAG_CONFIDENCE, in hundredths (0.7)
MIN_TAG_CONFIDENCE == 70

\* how `from google.cloud import vision` and ImageAnnotatorClient() can end
\* when the flag is set; with the flag unset neither is attempted
InitOutcomes(flag) ==
    IF flag THEN {"ok", "ImportError", "Exception"} ELSE {"not_attempted"}

\* the fields after VisionService.__init__
VisionService__init__(flag, outcome) ==
    IF ~flag THEN [enabled |-> FALSE, client |-> "None"]
    ELSE IF outcome = "ok" THEN [enabled |-> TRUE, client |-> "client"]
    ELSE [enabled |-> FALSE, client |-> "None"]

is_available(en, cl) == en /\ cl # "None"

\* the label categories in declaration order, each with its keywords
LABEL_CATEGORIES ==
    << <<"nature", <<"sky", "cloud", "tree", "flower", "grass", "mountain", "water", "ocean", "beach">> >>,
       <<"urban", <<"building", "street", "city", "architecture", "road", "car", "vehicle">> >>,
       <<"people", <<"person", "face", "portrait", "people", "crowd", "group">> >>,
       <<"indoor", <<"room", "furniture", "interior", "home", "office", "kitchen">> >>,
       <<"food", <<"food", "dish", "meal", "cuisine", "dessert", "drink", "restaurant">> >>,
       <<"technology", <<"computer", "phone", "screen", "device", "electronic", "technology">> >>,
       <<"animal", <<"animal", "pet", "dog", "cat", "bird", "wildlife">> >>,
       <<"sport", <<"sport", "game", "athlete", "competition", "exercise", "fitness">> >> >>

RECURSIVE LabelCategoryScan(_, _)
\* the loop of _get_label_category: the first category with a keyword in
\* the label, or "None"
LabelCategoryScan(label, categories) ==
    IF categories = <<>> THEN "None"
    ELSE IF \E i \in 1..Len(Head(categories)[2]) : Contains(label, Head(categories)[2][i])
         THEN Head(categories)[1]
         ELSE LabelCategoryScan(label, Tail(categories))

_get_label_category(label) == LabelCategoryScan(label, LABEL_CATEGORIES)

RECURSIVE LabelLoop_AboveOnly(_)
\* the loop with a strict threshold: a label at the minimum is dropped
LabelLoop_AboveOnly(annotations) ==
    IF annotations = <<>> THEN <<>>
    ELSE LET label == Head(annotations)
             tag == ReplaceChar(Lower(label.description), " ", "-")
             category == _get_label_category(Lower(label.description))
         IN  (IF label.score > MIN_TAG_CONFIDENCE
              THEN <<tag>> \o (IF category # "None" THEN <<category>> ELSE <<>>)
              ELSE <<>>)
                \o LabelLoop_AboveOnly(Tail(annotations))

RECURSIVE LabelLoop(_)
\* the loop of _analyze_labels over response.label_annotations
LabelLoop(annotations) ==
    IF annotations = <<>> THEN <<>>
    ELSE LET label == Head(annotations)
             tag == ReplaceChar(Lower(label.description), " ", "-")
             category == _get_label_category(Lower(label.description))
         IN  (IF label.score >= MIN_TAG_CONFIDENCE
              THEN <<tag>> \o (IF category # "None" THEN <<category>> ELSE <<>>)
              ELSE <<>>)
                \o LabelLoop(Tail(annotations))

\* a reply is [ok |-> FALSE] when the remote call (or the reading of its
\* response) raises, and [ok |-> TRUE, val |-> response] otherwise
_analyze_labels(reply) == IF reply.ok THEN LabelLoop(reply.val) ELSE <<>>

\* the palette in declaration order
COLOR_NAMES ==
    << <<<<255, 0, 0>>, "red">>, <<<<0, 255, 0>>, "green">>, <<<<0, 0, 255>>, "blue">>,
       <<<<255, 255, 0>>, "yellow">>, <<<<255, 165, 0>>, "orange">>,
       <<<<128, 0, 128>>, "purple">>, <<<<255, 192, 203>>, "pink">>,
       <<<<0, 0, 0>>, "black">>, <<<<255, 255, 255>>, "white">>,
       <<<<128, 128, 128>>, "gray">> >>

\* the square of the Euclidean distance of two RGB triples
SquaredDistance(a, b) ==
    (a[1] - b[1]) * (a[1] - b[1]) + (a[2] - b[2]) * (a[2] - b[2])
        + (a[3] - b[3]) * (a[3] - b[3])

\* the distance below which a palette colour is accepted (150), squared
MaxColorDistanceSquared == 22500

RECURSIVE ClosestLoop(_, _, _, _)
\* the loop of _get_closest_color_name: a strictly smaller distance replaces
\* the closest colour so far (best < 0 stands for infinity)
ClosestLoop(rgb, palette, best, closest) ==
    IF palette = <<>> THEN [distance |-> best, name |-> closest]
    ELSE LET d == SquaredDistance(rgb, Head(palette)[1])
         IN  IF best < 0 \/ d < best
             THEN ClosestLoop(rgb, Tail(palette), d, Head(palette)[2])
             ELSE ClosestLoop(rgb, Tail(palette), best, closest)

_get_closest_color_name(rgb) ==
    LET r == ClosestLoop(rgb, COLOR_NAMES, -1, "None")
    IN  IF r.distance >= 0 /\ r.distance < MaxColorDistanceSquared THEN r.name ELSE "None"

RECURSIVE ColorLoop(_, _)
\* the loop of _analyze_colors over the colours, with the tags so far
ColorLoop(colors, tags) ==
    IF colors = <<>> THEN tags
    ELSE LET color_name == _get_closest_color_name(Head(colors))
         IN  IF color_name # "None" /\ ~InList(color_name, tags)
             THEN ColorLoop(Tail(colors), Append(tags, color_name))
             ELSE ColorLoop(Tail(colors), tags)

_analyze_colors(reply) ==
    IF reply.ok THEN ColorLoop(Take(reply.val, 3), <<>>) ELSE <<>>

\* doc_keywords of _analyze_text, in declaration order (each maps to itself)
DOC_KEYWORDS == <<"invoice", "receipt", "contract", "certificate", "diploma">>

RECURSIVE KeywordLoop(_, _)
\* the loop over doc_keywords.items()
KeywordLoop(text, keywords) ==
    IF keywords = <<>> THEN <<>>
    ELSE (IF Contains(text, Head(keywords)) THEN <<Head(keywords)>> ELSE <<>>)
            \o KeywordLoop(text, Tail(keywords))

\* reply.val is the list of the descriptions of response.text_annotations
_analyze_text(reply) ==
    IF ~reply.ok THEN <<>>
    ELSE IF reply.val = <<>> THEN <<>>
    ELSE <<"text-content">> \o KeywordLoop(Lower(reply.val[1]), DOC_KEYWORDS)

\* the tag level_map gives a likelihood name, "None" for none
level_map(name) ==
    IF name \in {"POSSIBLE", "LIKELY", "VERY_LIKELY"} THEN "flagged" ELSE "None"

\* a safe-search analysis that puts the tags of level_map to use
_analyze_safe_search_Flagged(reply) ==
    IF ~reply.ok THEN <<>>
    ELSE IF reply.val.adult = "VERY_UNLIKELY" /\ reply.val.violence = "VERY_UNLIKELY"
         THEN <<"professional", "safe-content">>
         ELSE IF level_map(reply.val.adult) # "None" \/ level_map(reply.val.violence) # "None"
              THEN <<"flagged">>
              ELSE <<>>

\* reply.val is [adult, violence], the names of the two likelihoods
_analyze_safe_search(reply) ==
    IF ~reply.ok THEN <<>>
    ELSE IF reply.val.adult = "VERY_UNLIKELY" /\ reply.val.violence = "VERY_UNLIKELY"
         THEN <<"professional", "safe-content">>
         ELSE <<>>

\* the remote calls of one analysis, in the order they are made
RemoteCalls == <<"label_detection", "image_properties", "text_detection", "safe_search_detection">>

\* analyze_image whose sub-analyses let the remote error reach the outer
\* handler: one failing sub-analysis empties the whole result
vision_analyze_image_OuterCatch(en, cl, image) ==
    IF ~is_available(en, cl) THEN [out |-> <<>>, raised |-> FALSE, events |-> <<>>]
    ELSE IF ~image.readable THEN [out |-> <<>>, raised |-> FALSE, events |-> <<"open">>]
    ELSE IF image.labels.ok /\ image.colors.ok /\ image.text.ok /\ image.safe.ok
         THEN [out |-> _analyze_labels(image.labels) \o _analyze_colors(image.colors)
                        \o _analyze_text(image.text) \o _analyze_safe_search(image.safe),
               raised |-> FALSE, events |-> <<"open">> \o RemoteCalls]
         ELSE [out |-> <<>>, raised |-> FALSE, events |-> <<"open">> \o RemoteCalls]

\* analyze_image without the availability test
vision_analyze_image_NoGuard(en, cl, image) ==
    IF ~image.readable THEN [out |-> <<>>, raised |-> FALSE, events |-> <<"open">>]
    ELSE [out |-> _analyze_labels(image.labels) \o _analyze_colors(image.colors)
                    \o _analyze_text(image.text) \o _analyze_safe_search(image.safe),
          raised |-> FALSE, events |-> <<"open">> \o RemoteCalls]

\* VisionService.analyze_image(image_path): the tags, whether it raised, and
\* the I/O done: the open of the file, then the four remote calls.
\* image.readable is whether open()/read()/vision.Image() succeed;
\* image.labels, .colors, .text, .safe are the replies of the remote service
vision_analyze_image(en, cl, image) ==
    IF ~is_available(en, cl) THEN [out |-> <<>>, raised |-> FALSE, events |-> <<>>]
    ELSE IF ~image.readable THEN [out |-> <<>>, raised |-> FALSE, events |-> <<"open">>]
    ELSE [out |-> _analyze_labels(image.labels) \o _analyze_colors(image.colors)
                    \o _analyze_text(image.text) \o _analyze_safe_search(image.safe),
          raised |-> FALSE, events |-> <<"open">> \o RemoteCalls]

\* results[path] = tags on a dict kept as a list of (key, value) pairs in
\* insertion order: a key already present keeps its place
DictSet(results, path, tags) ==
    IF \E i \in 1..Len(results) : results[i][1] = path
    THEN [i \in 1..Len(results) |->
            IF results[i][1] = path THEN <<path, tags>> ELSE results[i]]
    ELSE Append(results, <<path, tags>>)

RECURSIVE BatchLoop(_, _, _, _, _)
\* the loop of batch_analyze_images over image_paths; files gives the image
\* file at each path
BatchLoop(en, cl, image_paths, files, acc) ==
    IF image_paths = <<>> THEN acc
    ELSE LET path == Head(image_paths)
             one == vision_analyze_image(en, cl, files[path])
         IN  BatchLoop(en, cl, Tail(image_paths), files,
                       [out |-> DictSet(acc.out, path, one.out),
                        raised |-> acc.raised \/ one.raised,
                        events |-> acc.events \o <<"is_available">> \o one.events])

\* VisionService.batch_analyze_images(image_paths): the dict of the results
batch_analyze_images(en, cl, image_paths, files) ==
    IF ~is_available(en, cl)
    THEN [out |-> <<>>, raised |-> FALSE, events |-> <<"is_available">>]
    ELSE BatchLoop(en, cl, image_paths, files,
                   [out |-> <<>>, raised |-> FALSE, events |-> <<"is_available">>])

\* the keys of VISION_FEATURES in declaration order
VISION_FEATURES ==
    <<"LABEL_DETECTION", "IMAGE_PROPERTIES", "SAFE_SEARCH_DETECTION", "TEXT_DETECTION">>

\* VisionService.get_usage_info()
get_usage_info(en, cl) ==
    [out |-> [enabled |-> en, available |-> is_available(en, cl),
              features |-> VISION_FEATURES, min_confidence |-> MIN_TAG_CONFIDENCE],
     raised |-> FALSE, events |-> <<"is_available">>]

-----------------------------------------------------------------------------
(* app/services/file_processor.py: category of a media type *)

\* the prefixes in declaration order, each with its category
MIME_PREFIXES ==
    << <<"image/", "image">>, <<"video/", "video">>,
       <<"audio/", "audio">>, <<"text/", "text">> >>

MimeExactKeys ==
    {"application/pdf", "application/msword",
     "application/vnd.openxmlformats-officedocument.wordprocessingml.document",
     "application/vnd.ms-excel",
     "application/vnd.openxmlformats-officedocument.spreadsheetml.sheet",
     "application/zip", "application/x-rar-compressed", "application/x-7z-compressed"}

MIME_EXACT ==
    [k \in MimeExactKeys |->
        CASE k \in {"application/pdf", "application/msword",
                    "application/vnd.openxmlformats-officedocument.wordprocessingml.document"}
                -> "document"
          [] k \in {"application/vnd.ms-excel",
                    "application/vnd.openxmlformats-officedocument.spreadsheetml.sheet"}
                -> "spreadsheet"
          [] k \in {"application/zip", "application/x-rar-compressed",
                    "application/x-7z-compressed"}
                -> "archive"]

RECURSIVE PrefixScan(_, _)
\* the loop over MIME_PREFIXES.items(): the first prefix the type starts with
PrefixScan(mime_type, prefixes) ==
    IF prefixes = <<>> THEN "other"
    ELSE IF StartsWith(mime_type, Head(prefixes)[1]) THEN Head(prefixes)[2]
         ELSE PrefixScan(mime_type, Tail(prefixes))

RECURSIVE PrefixScan_Substring(_, _)
\* the loop testing `prefix in mime_type` instead of startswith
PrefixScan_Substring(mime_type, prefixes) ==
    IF prefixes = <<>> THEN "other"
    ELSE IF Contains(mime_type, Head(prefixes)[1]) THEN Head(prefixes)[2]
         ELSE PrefixScan_Substring(mime_type, Tail(prefixes))

\* get_file_category with a substring test for the prefixes
get_file_category_Substring(mime_type) ==
    IF mime_type \in DOMAIN MIME_EXACT THEN MIME_EXACT[mime_type]
    ELSE PrefixScan_Substring(mime_type, MIME_PREFIXES)

get_file_category(mime_type) ==
    IF mime_type \in DOMAIN MIME_EXACT THEN MIME_EXACT[mime_type]
    ELSE PrefixScan(mime_type, MIME_PREFIXES)

-----------------------------------------------------------------------------
(* app/services/file_processor.py: the image analyzer *)

\* ratio tags whose bounds are all exclusive
RatioTags_ExclusiveBounds(width, height) ==
    LET w == IF height > 0 THEN width ELSE 1
        h == IF height > 0 THEN height ELSE 1
    IN  IF 10 * w > 9 * h /\ 10 * w < 11 * h THEN <<"square", "balanced">>
        ELSE IF 10 * w > 15 * h THEN <<"landscape", "wide">>
        ELSE IF 10 * w < 7 * h THEN <<"portrait", "vertical">>
        ELSE <<>>

\* the tags of the aspect ratio.  ratio = width / height if height > 0
\* else 1; the comparisons with 0.9, 1.1, 1.5 and 0.7 are made on integers
\* (10 * width against 9 * height, ...), which decides them as the
\* floating-point division does for every size an image can have
RatioTags(width, height) ==
    LET w == IF height > 0 THEN width ELSE 1
        h == IF height > 0 THEN height ELSE 1
    IN  IF 10 * w >= 9 * h /\ 10 * w <= 11 * h THEN <<"square", "balanced">>
        ELSE IF 10 * w > 15 * h THEN <<"landscape", "wide">>
        ELSE IF 10 * w < 7 * h THEN <<"portrait", "vertical">>
        ELSE <<>>

PIXELS_4K == 8294400
PIXELS_HD == 2073600
PIXELS_SD == 480000

\* the tags of the pixel count
ResolutionTags(width, height) ==
    LET pixels == width * height
    IN  IF pixels >= PIXELS_4K THEN <<"4k", "ultra-hd">>
        ELSE IF pixels >= PIXELS_HD THEN <<"high resolution", "hd">>
        ELSE IF pixels >= PIXELS_SD THEN <<"low resolution", "sd">>
        ELSE <<>>

\* mode_map.get(img.mode, [])
ModeTags(mode) ==
    CASE mode = "RGB" -> <<"color">>
      [] mode \in {"L", "LA"} -> <<"grayscale", "black-white">>
      [] mode = "RGBA" -> <<"color", "transparent">>
      [] OTHER -> <<>>

\* _analyze_dominant_color: the tag it appends, if any.  pixel.kind is
\* "error" when resize or getpixel raises, "int" when getpixel returns an
\* int, "tuple" when it returns the tuple pixel.val; a tuple shorter than
\* three raises IndexError, which the bare except swallows
_analyze_dominant_color(pixel) ==
    IF pixel.kind # "tuple" THEN <<>>
    ELSE IF Len(pixel.val) < 3 THEN <<>>
    ELSE LET r == pixel.val[1]
             g == pixel.val[2]
             b == pixel.val[3]
         IN  IF r > 200 /\ g < 100 /\ b < 100 THEN <<"red">>
             ELSE IF r < 100 /\ g > 200 /\ b < 100 THEN <<"green">>
             ELSE IF r < 100 /\ g < 100 /\ b > 200 THEN <<"blue">>
             ELSE IF r > 200 /\ g > 200 /\ b > 200 THEN <<"bright">>
             ELSE IF r < 50 /\ g < 50 /\ b < 50 THEN <<"dark">>
             ELSE <<>>

\* the tags built inside `with Image.open(file_path) as img`
LocalImageTags(img) ==
    <<"image">>
        \o (IF img.format # "None" THEN <<Lower(img.format)>> ELSE <<>>)
        \o RatioTags(img.width, img.height)
        \o ResolutionTags(img.width, img.height)
        \o ModeTags(img.mode)
        \o _analyze_dominant_color(img.pixel)

\* analyze_image_local in which a failed remote call reaches the handler of
\* the image analysis
analyze_image_local_RemoteFailureFalls(en, cl, file) ==
    IF ~file.img.readable
    THEN [out |-> <<"image", "unknown">>, raised |-> FALSE, events |-> <<"Image.open">>]
    ELSE IF is_available(en, cl)
              /\ ~(file.remote.readable /\ file.remote.labels.ok /\ file.remote.colors.ok
                      /\ file.remote.text.ok /\ file.remote.safe.ok)
         THEN [out |-> <<"image", "unknown">>, raised |-> FALSE,
               events |-> <<"Image.open", "is_available">>
                            \o vision_analyze_image(en, cl, file.remote).events]
         ELSE [out |-> LocalImageTags(file.img)
                        \o vision_analyze_image(en, cl, file.remote).out,
               raised |-> FALSE,
               events |-> <<"Image.open", "is_available">>
                            \o vision_analyze_image(en, cl, file.remote).events]

\* FileProcessor.analyze_image_local(file_path).  file.img is the image as
\* PIL reads it (img.readable: whether Image.open succeeds), file.remote the
\* same file as the augmenter meets it
analyze_image_local(en, cl, file) ==
    IF ~file.img.readable
    THEN [out |-> <<"image", "unknown">>, raised |-> FALSE, events |-> <<"Image.open">>]
    ELSE LET tags == LocalImageTags(file.img)
             vision == IF is_available(en, cl)
                       THEN vision_analyze_image(en, cl, file.remote)
                       ELSE [out |-> <<>>, raised |-> FALSE, events |-> <<>>]
         IN  [out |-> IF vision.raised THEN <<"image", "unknown">> ELSE tags \o vision.out,
              raised |-> FALSE,
              events |-> <<"Image.open", "is_available">> \o vision.events]

-----------------------------------------------------------------------------
(* app/services/file_processor.py: the document, text and media analyzers *)

\* PDF_KEYWORDS in declaration order, each category with its keywords
PDF_KEYWORDS ==
    << <<"invoice", <<"invoice", "fatura", "pagamento", "total">> >>,
       <<"financial", <<"financial", "financeiro", "contabilidade">> >>,
       <<"contract", <<"contract", "contrato", "acordo">> >>,
       <<"legal", <<"legal", "juridico", "tribunal">> >>,
       <<"proposal", <<"proposal", "proposta", "orçamento">> >>,
       <<"budget", <<"budget", "orçamento", "custo">> >>,
       <<"report", <<"report", "relatório", "análise">> >>,
       <<"presentation", <<"presentation", "apresentação", "slide">> >> >>

\* the set found_categories: the categories with a keyword in the sample
FoundCategories(text_sample) ==
    {PDF_KEYWORDS[i][1] : i \in
        {j \in 1..Len(PDF_KEYWORDS) :
            \E k \in 1..Len(PDF_KEYWORDS[j][2]) : Contains(text_sample, PDF_KEYWORDS[j][2][k])}}

\* the lists list(found_categories) can be: a set is iterated in no fixed order
Orderings(S) ==
    {f \in [1..Cardinality(S) -> S] : \A i, j \in 1..Cardinality(S) : i # j => f[i] # f[j]}

RECURSIVE WordCount(_, _)
\* len(s.split()) for a text whose only whitespace is the space; inWord
\* tells whether the previous character was part of a word
WordCount(s, inWord) ==
    IF Len(s) = 0 THEN 0
    ELSE LET space == SubSeq(s, 1, 1) = " "
         IN  (IF ~space /\ ~inWord THEN 1 ELSE 0) + WordCount(SubSeq(s, 2, Len(s)), ~space)

\* page tiers whose upper bounds are exclusive
PageTags_ExclusiveBounds(num_pages) ==
    IF num_pages < 3 THEN <<"single-page", "flyer">>
    ELSE IF num_pages < 5 THEN <<"short-document", "brief">>
    ELSE IF num_pages < 20 THEN <<"medium-document", "report">>
    ELSE <<"long-document", "book", "manual">>

\* the tags of the page count
PageTags(num_pages) ==
    IF num_pages <= 3 THEN <<"single-page", "flyer">>
    ELSE IF num_pages <= 5 THEN <<"short-document", "brief">>
    ELSE IF num_pages <= 20 THEN <<"medium-document", "report">>
    ELSE <<"long-document", "book", "manual">>

TEXT_HEAVY_WORDS == 1000

\* the tags analyze_pdf builds inside its try block.  The sample is
\* pdf.text followed by pdf.more_words further words that hold no keyword;
\* order is the order in which the set of found categories is listed
PdfTags(pdf, order) ==
    LET text_sample == Lower(pdf.text)
        words == WordCount(text_sample, FALSE) + pdf.more_words
        nonEmpty == Len(text_sample) > 0 \/ pdf.more_words > 0
    IN  <<"pdf", "document">>
            \o PageTags(pdf.num_pages)
            \o (IF nonEmpty /\ words > TEXT_HEAVY_WORDS THEN <<"text-heavy">> ELSE <<>>)
            \o (IF nonEmpty THEN order ELSE <<>>)

\* analyze_pdf without its try/except: the error of the reader propagates
analyze_pdf_NoHandler(pdf, order) ==
    IF ~pdf.readable \/ ~pdf.extract_ok
    THEN [out |-> <<>>, raised |-> TRUE, events |-> <<"open">>]
    ELSE [out |-> PdfTags(pdf, order), raised |-> FALSE, events |-> <<"open">>]

\* FileProcessor.analyze_pdf(file_path).  pdf.readable: open, PdfReader and
\* len(pdf.pages) succeed; pdf.extract_ok: extract_text returns a str for
\* each of the first three pages
analyze_pdf(pdf, order) ==
    IF ~pdf.readable \/ ~pdf.extract_ok
    THEN [out |-> <<"pdf", "document", "error">>, raised |-> FALSE, events |-> <<"open">>]
    ELSE [out |-> PdfTags(pdf, order), raised |-> FALSE, events |-> <<"open">>]

\* TEXT_ANALYSIS_MAP in declaration order: the extensions and the base tags
\* of each rule
TEXT_ANALYSIS_MAP ==
    << [exts |-> <<".py", ".python">>, tags |-> <<"code", "python", "programming">>],
       [exts |-> <<".js", ".jsx", ".ts", ".tsx">>, tags |-> <<"code", "javascript", "programming">>],
       [exts |-> <<".html", ".htm">>, tags |-> <<"code", "html", "web", "markup">>],
       [exts |-> <<".css">>, tags |-> <<"code", "css", "stylesheet", "design">>],
       [exts |-> <<".java">>, tags |-> <<"code", "java", "programming">>],
       [exts |-> <<".cpp", ".c", ".h", ".hpp">>, tags |-> <<"code", "c++", "c", "programming">>],
       [exts |-> <<".php">>, tags |-> <<"code", "php", "backend", "web">>],
       [exts |-> <<".sql">>, tags |-> <<"code", "sql", "database", "query">>],
       [exts |-> <<".json">>, tags |-> <<"data", "json", "config">>],
       [exts |-> <<".md", ".markdown">>, tags |-> <<"markdown", "documentation", "readme">>],
       [exts |-> <<".csv">>, tags |-> <<"csv", "data", "spreadsheet">>] >>

\* the 'check' of rule i applied to the content (rules without one add nothing)
RuleCheck(i, c) ==
    CASE i = 1 -> IF Contains(c, "import") /\ Contains(c, "def") THEN <<"script">> ELSE <<>>
      [] i = 2 -> (IF Contains(c, "function") \/ Contains(c, "const") THEN <<"script">> ELSE <<>>)
                    \o (IF Contains(Lower(c), "react") \/ Contains(Lower(c), "component")
                        THEN <<"react", "frontend">> ELSE <<>>)
      [] i = 3 -> IF Contains(Lower(c), "<html") THEN <<"webpage">> ELSE <<>>
      [] i = 5 -> IF Contains(c, "class") /\ Contains(c, "public") THEN <<"oop">> ELSE <<>>
      [] i = 6 -> IF Contains(c, "#include") THEN <<"native">> ELSE <<>>
      [] OTHER -> <<>>

RECURSIVE RuleLoop(_, _, _)
\* the loop over TEXT_ANALYSIS_MAP from rule i on: the tags of the first
\* rule with an extension the lower-cased path ends with
RuleLoop(file_lower, content, i) ==
    IF i > Len(TEXT_ANALYSIS_MAP) THEN <<>>
    ELSE IF \E k \in 1..Len(TEXT_ANALYSIS_MAP[i].exts) :
                EndsWith(file_lower, TEXT_ANALYSIS_MAP[i].exts[k])
         THEN TEXT_ANALYSIS_MAP[i].tags \o RuleCheck(i, content)
         ELSE RuleLoop(file_lower, content, i + 1)

LARGE_FILE_LINES == 100

\* FileProcessor.analyze_text(file_path).  txt.readable: open and read
\* succeed; the content read is txt.content, then txt.more_lines newline
\* characters, then txt.tail, a last line without newline or keyword
analyze_text(file_path, txt) ==
    IF ~txt.readable
    THEN [out |-> <<"text", "error">>, raised |-> FALSE, events |-> <<"open">>]
    ELSE [out |-> <<"text">>
                    \o RuleLoop(Lower(file_path), txt.content, 1)
                    \o (IF CountChar(txt.content, "\n") + txt.more_lines
                            + CountChar(txt.tail, "\n") > LARGE_FILE_LINES
                        THEN <<"large-file">> ELSE <<>>),
          raised |-> FALSE, events |-> <<"open">>]

VIDEO_EXT_MAP ==
    << <<".mp4", <<"mp4", "h264">> >>, <<".avi", <<"avi">> >>,
       <<".mov", <<"mov", "quicktime">> >>, <<".mkv", <<"mkv", "matroska">> >>,
       <<".webm", <<"webm", "vp9">> >> >>

AUDIO_EXT_MAP ==
    << <<".mp3", <<"mp3", "mpeg">> >>, <<".wav", <<"wav", "lossless">> >>,
       <<".flac", <<"flac", "lossless", "high-quality">> >>,
       <<".ogg", <<"ogg", "vorbis">> >>, <<".m4a", <<"m4a", "aac">> >> >>

RECURSIVE MediaExtLoop(_, _)
\* the loop over mapping.items(): the extras of the first extension matched
MediaExtLoop(file_lower, mapping) ==
    IF mapping = <<>> THEN <<>>
    ELSE IF EndsWith(file_lower, Head(mapping)[1]) THEN Head(mapping)[2]
         ELSE MediaExtLoop(file_lower, Tail(mapping))

_analyze_media_ext(file_path, base_tag, mapping) ==
    [out |-> <<base_tag, "media">> \o MediaExtLoop(Lower(file_path), mapping),
     raised |-> FALSE, events |-> <<>>]

analyze_video(file_path) == _analyze_media_ext(file_path, "video", VIDEO_EXT_MAP)

analyze_audio(file_path) == _analyze_media_ext(file_path, "audio", AUDIO_EXT_MAP)

\* FileProcessor.get_file_type(filename); guess is the type
\* mimetypes.guess_type finds for the name, "None" when it finds none
get_file_type(guess) == IF guess = "None" THEN "application/octet-stram" ELSE guess

\* analyze_file that opens the file of a category without analyzer
analyze_file_OpensUnknown(en, cl, file_path, mime_type, file, order) ==
    LET category == get_file_category(mime_type)
    IN  CASE category = "image" -> analyze_image_local(en, cl, file)
          [] category = "document" -> analyze_pdf(file.pdf, order)
          [] category = "text" -> analyze_text(file_path, file.txt)
          [] category = "video" -> analyze_video(file_path)
          [] category = "audio" -> analyze_audio(file_path)
          [] OTHER -> [out |-> <<category>>, raised |-> FALSE, events |-> <<"open">>]

\* FileProcessor.analyze_file(file_path, mime_type): the analyzer of the
\* category, or the category alone.  file describes the file at file_path
\* as the analyzer of its category meets it
analyze_file(en, cl, file_path, mime_type, file, order) ==
    LET category == get_file_category(mime_type)
    IN  CASE category = "image" -> analyze_image_local(en, cl, file)
          [] category = "document" -> analyze_pdf(file.pdf, order)
          [] category = "text" -> analyze_text(file_path, file.txt)
          [] category = "video" -> analyze_video(file_path)
          [] category = "audio" -> analyze_audio(file_path)
          [] OTHER -> [out |-> <<category>>, raised |-> FALSE, events |-> <<>>]

-----------------------------------------------------------------------------
(* Inputs *)

\* media types: every exact key, types under each prefix, a bare prefix,
\* upper case, a prefix in the middle, the default of get_file_type, none
MimeTypes ==
    MimeExactKeys \cup
    {"image/png", "image/jpeg", "image/", "video/mp4", "audio/mpeg",
     "text/plain", "text/x-python", "application/octet-stream",
     "application/octet-stram", "application/json", "IMAGE/PNG",
     "ximage/png", "image", ""}

\* raw tags a caller may hand in: mixed case, synonyms, stop tags, the
\* empty string, tags with and without a priority
TagUniverse ==
    {"JPG", "jpeg", "image", "Unknown", "Photo", "pdf", "", "zeta", "ERROR", "Code", "backend"}

RECURSIVE SeqsUpTo(_, _)
\* all lists over S of length at most n
SeqsUpTo(S, n) ==
    IF n = 0 THEN {<<>>}
    ELSE LET shorter == SeqsUpTo(S, n - 1)
         IN  shorter \cup {Append(s, x) : s \in {t \in shorter : Len(t) = n - 1}, x \in S}

TagLists == SeqsUpTo(TagUniverse, MaxLen)

\* tags of the lists that are merged
MergeUniverse == {"Photo", "image", "jpg", "other", "pdf"}

\* the pairs of lists that are merged: at most MaxLen tags in all
MergePairs ==
    UNION {{<<SubSeq(x, 1, k), SubSeq(x, k + 1, Len(x))>> : k \in 0..Len(x)} :
            x \in SeqsUpTo(MergeUniverse, MaxLen)}

-----------------------------------------------------------------------------
(* State machine *)

NoCall == [op |-> "none", out |-> <<>>, raised |-> FALSE, events |-> <<>>]

\* the worker threads of the server
Workers == {1, 2}

\* a worker thread that handles no request
Idle ==
    [pc |-> "idle", task |-> [kind |-> "none"], tags |-> <<>>, i |-> 0, seen |-> {},
     filtered |-> <<>>, out |-> <<>>, overlapped |-> FALSE]

\* the list of the documented scenario of the pipeline
ScenarioTags == <<"JPG", "image", "Unknown", "jpeg">>

ProcessTagsRequests ==
    {[op |-> "process_tags", tags |-> x] : x \in TagLists \cup {ScenarioTags}}

MergeTagsRequests ==
    {[op |-> "merge_tags", a |-> p[1], b |-> p[2]] : p \in MergePairs}

AddCustomTagsRequests ==
    {[op |-> "add_custom_tags", existing |-> p[1], custom |-> p[2]] : p \in MergePairs}

\* what the remote service answers to label_detection: an error, no label,
\* labels above, at and below the confidence threshold
LabelReplies ==
    {[ok |-> FALSE],
     [ok |-> TRUE, val |-> <<>>],
     [ok |-> TRUE, val |-> <<[description |-> "Sky", score |-> 95],
                             [description |-> "Office Building", score |-> 70],
                             [description |-> "Blur", score |-> 69]>>]}

\* answers to image_properties: an error, no colour, four colours of which
\* the first two are nearest to red and the third is far from the palette
ColorReplies ==
    {[ok |-> FALSE],
     [ok |-> TRUE, val |-> <<>>],
     [ok |-> TRUE, val |-> <<<<250, 10, 5>>, <<255, 0, 0>>, <<0, 255, 255>>, <<0, 0, 250>>>>]}

\* answers to text_detection: an error, no text, two text blocks
TextReplies ==
    {[ok |-> FALSE],
     [ok |-> TRUE, val |-> <<>>],
     [ok |-> TRUE, val |-> <<"INVOICE 12 contract", "Diploma">>]}

\* the names of the likelihood levels of the remote service
Likelihoods == {"UNKNOWN", "VERY_UNLIKELY", "UNLIKELY", "POSSIBLE", "LIKELY", "VERY_LIKELY"}

\* answers to safe_search_detection: an error, and every pair of levels
SafeReplies ==
    {[ok |-> FALSE]}
    \cup {[ok |-> TRUE, val |-> [adult |-> a, violence |-> v]] : a \in Likelihoods, v \in Likelihoods}

\* an image file as the augmenter sees it: whether it can be read, and the
\* replies of the remote service for it
RemoteImages ==
    [readable : BOOLEAN, labels : LabelReplies, colors : ColorReplies,
     text : TextReplies, safe : SafeReplies]

\* images as PIL reads them: one that cannot be opened, and readable ones
\* of several sizes, formats, colour modes and dominant pixels
ImageSizes ==
    {<<100, 100>>, <<1920, 1080>>, <<600, 1000>>, <<1000, 800>>,
     <<9, 10>>, <<11, 10>>, <<15, 10>>, <<7, 10>>, <<8, 10>>, <<10, 0>>}

DominantPixels ==
    {[kind |-> "error", val |-> <<>>], [kind |-> "int", val |-> <<>>],
     [kind |-> "tuple", val |-> <<250, 10, 10>>], [kind |-> "tuple", val |-> <<120, 255>>]}

ImageFiles ==
    {[readable |-> FALSE, width |-> 0, height |-> 0, format |-> "None", mode |-> "RGB",
      pixel |-> [kind |-> "error", val |-> <<>>]]}
    \cup {[readable |-> TRUE, width |-> sz[1], height |-> sz[2], format |-> f, mode |-> m,
           pixel |-> px] :
            sz \in ImageSizes, f \in {"PNG", "None"}, m \in {"RGB", "L", "P"},
            px \in DominantPixels}

\* the same files as the augmenter meets them: every sub-analysis fails or
\* answers in full
RemoteOfLocalImages ==
    {r \in RemoteImages :
        /\ r.labels.ok => r.labels.val # <<>>
        /\ r.colors.ok => r.colors.val # <<>>
        /\ r.text.ok => r.text.val # <<>>
        /\ r.safe.ok => (r.safe.val.adult = "VERY_UNLIKELY" /\ r.safe.val.violence = "VERY_UNLIKELY")}

\* documents as PyPDF2 reads them: unreadable, readable with a failing text
\* extraction, and readable ones by page count, text and length
PdfFiles ==
    {[readable |-> FALSE, extract_ok |-> FALSE, num_pages |-> 0, text |-> "", more_words |-> 0],
     [readable |-> TRUE, extract_ok |-> FALSE, num_pages |-> 2, text |-> "", more_words |-> 0]}
    \cup {[readable |-> TRUE, extract_ok |-> TRUE, num_pages |-> n, text |-> t, more_words |-> w] :
            n \in {0, 2, 3, 4, 5, 6, 18, 20, 21},
            t \in {"", "Fatura total do contrato", "Annual Report"},
            w \in {0, 1001}}

\* text files: unreadable, and readable ones by content, line count and
\* whether the sample ends in the middle of a line
TextFiles ==
    {[readable |-> FALSE, content |-> "", more_lines |-> 0, tail |-> ""]}
    \cup {[readable |-> TRUE, content |-> c, more_lines |-> n, tail |-> t] :
            c \in {"", "import os\ndef main(): pass", "const App = () => <Component/>", "<HTML>"},
            n \in {0, 99, 100, 101},
            t \in {"", "x"}}

\* a file path with the media type get_file_type gives it
ImagePaths == {<<"a.png", "image/png">>}
DocumentPaths == {<<"doc.pdf", "application/pdf">>, <<"letter.doc", "application/msword">>}
TextPaths ==
    {<<"app.py", "text/x-python">>, <<"APP.PY", "text/x-python">>, <<"ui.js", "text/javascript">>,
     <<"page.html", "text/html">>, <<"notes.txt", "text/plain">>, <<"data.csv", "text/csv">>}
MediaPaths ==
    {<<"clip.mp4", "video/mp4">>, <<"CLIP.MOV", "video/quicktime">>, <<"v.flv", "video/x-flv">>,
     <<"song.flac", "audio/flac">>, <<"s.aac", "audio/aac">>}
OtherPaths ==
    {<<"b.zip", "application/zip">>, <<"t.xls", "application/vnd.ms-excel">>,
     <<"x.bin", get_file_type("None")>>, <<"c.json", get_file_type("application/json")>>}

AnalyzeFileRequests ==
    {[op |-> "analyze_file", file_path |-> p[1], mime_type |-> p[2],
      file |-> [img |-> i, remote |-> r]] :
        p \in ImagePaths, i \in ImageFiles, r \in RemoteOfLocalImages}
    \cup {[op |-> "analyze_file", file_path |-> p[1], mime_type |-> p[2], file |-> [pdf |-> d]] :
            p \in DocumentPaths, d \in PdfFiles}
    \cup {[op |-> "analyze_file", file_path |-> p[1], mime_type |-> p[2], file |-> [txt |-> t]] :
            p \in TextPaths, t \in TextFiles}
    \cup {[op |-> "analyze_file", file_path |-> p[1], mime_type |-> p[2], file |-> [opaque |-> TRUE]] :
            p \in MediaPaths \cup OtherPaths}

IsAvailableRequests == {[op |-> "is_available"]}

VisionAnalyzeImageRequests ==
    {[op |-> "vision.analyze_image", image |-> i] : i \in RemoteImages}

GetFileCategoryRequests ==
    {[op |-> "get_file_category", mime_type |-> m] : m \in MimeTypes}

\* the image files of a batch: one the remote service answers in full for,
\* one that cannot be read
BatchFiles ==
    [a_png |-> [readable |-> TRUE,
                labels |-> [ok |-> TRUE, val |-> <<[description |-> "Sky", score |-> 95]>>],
                colors |-> [ok |-> FALSE], text |-> [ok |-> FALSE],
                safe |-> [ok |-> TRUE,
                          val |-> [adult |-> "VERY_UNLIKELY", violence |-> "VERY_UNLIKELY"]]],
     b_png |-> [readable |-> FALSE, labels |-> [ok |-> FALSE], colors |-> [ok |-> FALSE],
                text |-> [ok |-> FALSE], safe |-> [ok |-> FALSE]]]

BatchAnalyzeImagesRequests ==
    {[op |-> "batch_analyze_images", image_paths |-> x, files |-> BatchFiles] :
        x \in SeqsUpTo(DOMAIN BatchFiles, 2)}

GetUsageInfoRequests == {[op |-> "get_usage_info"]}

Requests ==
    ProcessTagsRequests \cup MergeTagsRequests \cup AddCustomTagsRequests
        \cup GetFileCategoryRequests \cup IsAvailableRequests
        \cup VisionAnalyzeImageRequests \cup AnalyzeFileRequests
        \cup BatchAnalyzeImagesRequests \cup GetUsageInfoRequests

Init ==
    /\ max_tags \in MaxTagsChoices
    /\ vision_flag \in BOOLEAN
    /\ vision_init \in InitOutcomes(vision_flag)
    /\ enabled = VisionService__init__(vision_flag, vision_init).enabled
    /\ client = VisionService__init__(vision_flag, vision_init).client
    /\ req \in Requests
    /\ last = NoCall
    /\ calls = 0
    /\ workers = [w \in Workers |-> Idle]
    /\ files_secondary = <<>>
    /\ utcnow = 0

\* tag_analyzer.process_tags(raw_tags)
ProcessTags ==
    /\ req.op = "process_tags"
    /\ last.op = "none"
    /\ last' = [op |-> "process_tags",
                out |-> process_tags(req.tags, max_tags),
                raised |-> FALSE, events |-> <<>>]
    /\ calls' = calls + 1
    /\ UNCHANGED <<max_tags, vision_flag, vision_init, enabled, client, req, workers, files_secondary, utcnow>>

\* tag_analyzer.merge_tags(a, b)
MergeTags ==
    /\ req.op = "merge_tags"
    /\ last.op = "none"
    /\ last' = [op |-> "merge_tags",
                out |-> merge_tags(<<req.a, req.b>>, max_tags),
                raised |-> FALSE, events |-> <<>>]
    /\ calls' = calls + 1
    /\ UNCHANGED <<max_tags, vision_flag, vision_init, enabled, client, req, workers, files_secondary, utcnow>>

\* tag_analyzer.add_custom_tags(existing_tags, custom_tags)
AddCustomTags ==
    /\ req.op = "add_custom_tags"
    /\ last.op = "none"
    /\ last' = [op |-> "add_custom_tags",
                out |-> add_custom_tags(req.existing, req.custom, max_tags),
                raised |-> FALSE, events |-> <<>>]
    /\ calls' = calls + 1
    /\ UNCHANGED <<max_tags, vision_flag, vision_init, enabled, client, req, workers, files_secondary, utcnow>>

\* file_processor.get_file_category(mime_type)
GetFileCategory ==
    /\ req.op = "get_file_category"
    /\ last.op = "none"
    /\ last' = [op |-> "get_file_category",
                out |-> get_file_category(req.mime_type),
                raised |-> FALSE, events |-> <<>>]
    /\ calls' = calls + 1
    /\ UNCHANGED <<max_tags, vision_flag, vision_init, enabled, client, req, workers, files_secondary, utcnow>>

\* vision_service.is_available()
IsAvailable ==
    /\ req.op = "is_available"
    /\ last.op = "none"
    /\ last' = [op |-> "is_available",
                out |-> is_available(enabled, client),
                raised |-> FALSE, events |-> <<>>]
    /\ calls' = calls + 1
    /\ UNCHANGED <<max_tags, vision_flag, vision_init, enabled, client, req, workers, files_secondary, utcnow>>

\* analyze_image that builds the client again when it finds none
VisionAnalyzeImage_RetriesInit ==
    /\ req.op = "vision.analyze_image"
    /\ last.op = "none"
    /\ enabled' = (IF vision_flag /\ client = "None" THEN TRUE ELSE enabled)
    /\ client' = (IF vision_flag /\ client = "None" THEN "client" ELSE client)
    /\ last' = [op |-> "vision.analyze_image"]
                    @@ vision_analyze_image(enabled', client', req.image)
    /\ calls' = calls + 1
    /\ UNCHANGED <<max_tags, vision_flag, vision_init, req, workers, files_secondary, utcnow>>

\* vision_service.analyze_image(image_path)
VisionAnalyzeImage ==
    /\ req.op = "vision.analyze_image"
    /\ last.op = "none"
    /\ last' = [op |-> "vision.analyze_image"]
                    @@ vision_analyze_image(enabled, client, req.image)
    /\ calls' = calls + 1
    /\ UNCHANGED <<max_tags, vision_flag, vision_init, enabled, client, req, workers, files_secondary, utcnow>>

\* the orders in which analyze_pdf may list the found categories of the
\* requested file (the empty list for a file that is no readable document)
FoundOrders ==
    IF "pdf" \in DOMAIN req.file
    THEN Orderings(FoundCategories(Lower(req.file.pdf.text)))
    ELSE {<<>>}

\* file_processor.analyze_file(file_path, mime_type)
AnalyzeFile ==
    /\ req.op = "analyze_file"
    /\ last.op = "none"
    /\ \E order \in FoundOrders :
          last' = [op |-> "analyze_file"]
                    @@ analyze_file(enabled, client, req.file_path, req.mime_type, req.file, order)
    /\ calls' = calls + 1
    /\ UNCHANGED <<max_tags, vision_flag, vision_init, enabled, client, req, workers, files_secondary, utcnow>>

\* vision_service.batch_analyze_images(image_paths)
BatchAnalyzeImages ==
    /\ req.op = "batch_analyze_images"
    /\ last.op = "none"
    /\ last' = [op |-> "batch_analyze_images"]
                    @@ batch_analyze_images(enabled, client, req.image_paths, req.files)
    /\ calls' = calls + 1
    /\ UNCHANGED <<max_tags, vision_flag, vision_init, enabled, client, req, workers, files_secondary, utcnow>>

\* vision_service.get_usage_info()
GetUsageInfo ==
    /\ req.op = "get_usage_info"
    /\ last.op = "none"
    /\ last' = [op |-> "get_usage_info"] @@ get_usage_info(enabled, client)
    /\ calls' = calls + 1
    /\ UNCHANGED <<max_tags, vision_flag, vision_init, enabled, client, req, workers, files_secondary, utcnow>>

Next ==
    \/ ProcessTags
    \/ MergeTags
    \/ AddCustomTags
    \/ GetFileCategory
    \/ IsAvailable
    \/ VisionAnalyzeImage
    \/ AnalyzeFile
    \/ BatchAnalyzeImages
    \/ GetUsageInfo

Spec == Init /\ [][Next]_vars

-----------------------------------------------------------------------------
(* The augmenter over the lifetime of the process: calls made one after *)
(* the other on the one VisionService the FileProcessor builds          *)

\* the calls made on the augmenter
ServiceRequests ==
    IsAvailableRequests \cup BatchAnalyzeImagesRequests \cup GetUsageInfoRequests
        \cup {[op |-> "vision.analyze_image", image |-> i] : i \in RemoteOfLocalImages}

InitService ==
    /\ max_tags = MAX_TAGS_DEFAULT
    /\ vision_flag \in BOOLEAN
    /\ vision_init \in InitOutcomes(vision_flag)
    /\ enabled = VisionService__init__(vision_flag, vision_init).enabled
    /\ client = VisionService__init__(vision_flag, vision_init).client
    /\ req \in ServiceRequests
    /\ last = NoCall
    /\ calls = 0
    /\ workers = [w \in Workers |-> Idle]
    /\ files_secondary = <<>>
    /\ utcnow = 0

\* the caller makes its next call once the last one has returned
NextCall ==
    /\ last.op # "none"
    /\ calls < MaxCalls
    /\ req' \in ServiceRequests
    /\ last' = NoCall
    /\ UNCHANGED <<max_tags, vision_flag, vision_init, enabled, client, calls, workers, files_secondary, utcnow>>

NextService ==
    \/ IsAvailable
    \/ VisionAnalyzeImage
    \/ BatchAnalyzeImages
    \/ GetUsageInfo
    \/ NextCall

SpecService == InitService /\ [][NextService]_vars

-----------------------------------------------------------------------------
(* Concurrent requests: each worker thread runs one route handler, which   *)
(* calls analyze_file and process_tags on the module-level services; the   *)
(* steps of the threads interleave.  The locals of a handler (tags, the    *)
(* index, seen and filtered of the loop of filter_tags) belong to its      *)
(* thread; max_tags, enabled and client belong to the shared services      *)

\* the requests handled: uploads (process_file) of an image the augmenter
\* labels, an image that cannot be opened, a document, a text file and an
\* archive, and tag updates (update_file_tags)
ConcurrentTasks ==
    {[kind |-> "process_file", file_path |-> "a.png", mime_type |-> "image/png",
      file |-> [img |-> [readable |-> TRUE, width |-> 100, height |-> 100, format |-> "PNG",
                         mode |-> "RGB", pixel |-> [kind |-> "tuple", val |-> <<250, 10, 10>>]],
                remote |-> BatchFiles.a_png]],
     [kind |-> "process_file", file_path |-> "a.png", mime_type |-> "image/png",
      file |-> [img |-> [readable |-> FALSE, width |-> 0, height |-> 0, format |-> "None",
                         mode |-> "RGB", pixel |-> [kind |-> "error", val |-> <<>>]],
                remote |-> BatchFiles.b_png]],
     [kind |-> "process_file", file_path |-> "doc.pdf", mime_type |-> "application/pdf",
      file |-> [pdf |-> [readable |-> TRUE, extract_ok |-> TRUE, num_pages |-> 2,
                         text |-> "Fatura total do contrato", more_words |-> 0]]],
     [kind |-> "process_file", file_path |-> "app.py", mime_type |-> "text/x-python",
      file |-> [txt |-> [readable |-> TRUE, content |-> "import os\ndef main(): pass",
                         more_lines |-> 0, tail |-> ""]]],
     [kind |-> "process_file", file_path |-> "b.zip", mime_type |-> "application/zip",
      file |-> [opaque |-> TRUE]],
     [kind |-> "update_tags", tags |-> <<"JPG", "jpeg", "image">>],
     [kind |-> "update_tags", tags |-> <<"Photo", "pdf", "Unknown">>]}

\* the orders in which analyze_pdf may list the found categories of a task
TaskOrders(task) ==
    IF "pdf" \in DOMAIN task.file
    THEN Orderings(FoundCategories(Lower(task.file.pdf.text)))
    ELSE {<<>>}

\* another worker is in the middle of a request
OthersBusy(w) == \E v \in Workers \ {w} : workers[v].pc \notin {"idle", "done"}

InitConcurrent ==
    /\ max_tags \in MaxTagsChoices
    /\ vision_flag \in BOOLEAN
    /\ vision_init \in InitOutcomes(vision_flag)
    /\ enabled = VisionService__init__(vision_flag, vision_init).enabled
    /\ client = VisionService__init__(vision_flag, vision_init).client
    /\ req = [op |-> "none"]
    /\ last = NoCall
    /\ calls = 0
    /\ workers = [w \in Workers |-> Idle]
    /\ files_secondary = <<>>
    /\ utcnow = 0

\* a request arrives at worker w: an upload goes on to analyze_file, a tag
\* update to process_tags with the tags of the request
Begin(w) ==
    /\ workers[w].pc = "idle"
    /\ \E task \in ConcurrentTasks :
          workers' = [workers EXCEPT ![w] =
              [Idle EXCEPT !.task = task,
                           !.pc = IF task.kind = "process_file" THEN "analyze" ELSE "normalize",
                           !.tags = IF task.kind = "update_tags" THEN task.tags ELSE <<>>,
                           !.overlapped = OthersBusy(w)]]
    /\ UNCHANGED <<max_tags, vision_flag, vision_init, enabled, client, req, last, calls, files_secondary, utcnow>>

\* process_file: raw_tags = file_processor.analyze_file(file_path, mime_type)
Analyze(w) ==
    /\ workers[w].pc = "analyze"
    /\ \E order \in TaskOrders(workers[w].task) :
          workers' = [workers EXCEPT
              ![w].tags = analyze_file(enabled, client, workers[w].task.file_path,
                                       workers[w].task.mime_type, workers[w].task.file,
                                       order).out,
              ![w].pc = "normalize",
              ![w].overlapped = @ \/ OthersBusy(w)]
    /\ UNCHANGED <<max_tags, vision_flag, vision_init, enabled, client, req, last, calls, files_secondary, utcnow>>

\* process_tags: normalized = self.normalize_tags(raw_tags), and the entry
\* of filter_tags: seen = set(), filtered = []
Normalize(w) ==
    /\ workers[w].pc = "normalize"
    /\ workers' = [workers EXCEPT
          ![w].tags = normalize_tags(workers[w].tags),
          ![w].i = 1,
          ![w].seen = {},
          ![w].filtered = <<>>,
          ![w].pc = "filter",
          ![w].overlapped = @ \/ OthersBusy(w)]
    /\ UNCHANGED <<max_tags, vision_flag, vision_init, enabled, client, req, last, calls, files_secondary, utcnow>>

\* one iteration of the loop of filter_tags in which seen is an attribute
\* of the TagAnalyzer, shared by the threads
FilterStep_SharedSeen(w) ==
    /\ workers[w].pc = "filter"
    /\ workers[w].i <= Len(workers[w].tags)
    /\ LET tag_lower == Lower(workers[w].tags[workers[w].i])
           seen == UNION {workers[v].seen : v \in Workers}
       IN  workers' = [workers EXCEPT
              ![w].seen = IF tag_lower \notin seen /\ tag_lower \notin COMMON_TAGS_TO_REMOVE
                          THEN @ \cup {tag_lower} ELSE @,
              ![w].filtered = IF tag_lower \notin seen /\ tag_lower \notin COMMON_TAGS_TO_REMOVE
                              THEN Append(@, tag_lower) ELSE @,
              ![w].i = @ + 1,
              ![w].overlapped = @ \/ OthersBusy(w)]
    /\ UNCHANGED <<max_tags, vision_flag, vision_init, enabled, client, req, last, calls, files_secondary, utcnow>>

\* one iteration of the loop of filter_tags
FilterStep(w) ==
    /\ workers[w].pc = "filter"
    /\ workers[w].i <= Len(workers[w].tags)
    /\ LET tag_lower == Lower(workers[w].tags[workers[w].i])
           seen == workers[w].seen
       IN  workers' = [workers EXCEPT
              ![w].seen = IF tag_lower \notin seen /\ tag_lower \notin COMMON_TAGS_TO_REMOVE
                          THEN @ \cup {tag_lower} ELSE @,
              ![w].filtered = IF tag_lower \notin seen /\ tag_lower \notin COMMON_TAGS_TO_REMOVE
                              THEN Append(@, tag_lower) ELSE @,
              ![w].i = @ + 1,
              ![w].overlapped = @ \/ OthersBusy(w)]
    /\ UNCHANGED <<max_tags, vision_flag, vision_init, enabled, client, req, last, calls, files_secondary, utcnow>>

\* the loop of filter_tags is over: prioritized = self.prioritize_tags(filtered)
\* and the handler returns the tags
Prioritize(w) ==
    /\ workers[w].pc = "filter"
    /\ workers[w].i > Len(workers[w].tags)
    /\ workers' = [workers EXCEPT
          ![w].out = prioritize_tags(workers[w].filtered, max_tags),
          ![w].pc = "done",
          ![w].overlapped = @ \/ OthersBusy(w)]
    /\ UNCHANGED <<max_tags, vision_flag, vision_init, enabled, client, req, last, calls, files_secondary, utcnow>>

NextConcurrent ==
    \E w \in Workers :
        \/ Begin(w)
        \/ Analyze(w)
        \/ Normalize(w)
        \/ FilterStep(w)
        \/ Prioritize(w)

SpecConcurrent == InitConcurrent /\ [][NextConcurrent]_vars

-----------------------------------------------------------------------------
(* app/utils/validators.py, app/database/storage_service.py and the routes *)
(* of app/routes/files.py that write the table: requests made one after   *)
(* the other                                                               *)

\* config.MAX_FILE_SIZE: 50 * 1024 * 1024
MAX_FILE_SIZE == 52428800

\* FileValidator.ALL_ALLOWED_EXTENSIONS
ALL_ALLOWED_EXTENSIONS ==
    {".jpg", ".jpeg", ".png", ".gif", ".bmp", ".webp", ".svg",
     ".pdf", ".doc", ".docx", ".txt", ".odt",
     ".xls", ".xlsx", ".csv", ".ods",
     ".mp4", ".avi", ".mov", ".mkv", ".webm", ".flv",
     ".mp3", ".wav", ".ogg", ".flac", ".m4a", ".aac",
     ".zip", ".rar", ".7z", ".tar", ".gz",
     ".py", ".js", ".jsx", ".ts", ".tsx", ".html", ".css", ".java", ".cpp", ".c",
     ".h", ".php", ".rb", ".go", ".rs", ".swift", ".kt", ".sql", ".sh", ".json",
     ".xml", ".yml", ".yaml"}

\* the characters validate_filename forbids
forbidden_chars == {"/", "\\", "<", ">", ":", "\"", "|", "?", "*"}

RECURSIVE AfterLastDot(_)
\* filename.rsplit('.', 1)[1] for a name that holds a dot
AfterLastDot(s) ==
    IF SubSeq(s, Len(s), Len(s)) = "." THEN ""
    ELSE AfterLastDot(SubSeq(s, 1, Len(s) - 1)) \o SubSeq(s, Len(s), Len(s))

\* FileValidator.is_allowed_extension(filename)
is_allowed_extension(filename) ==
    IF ~Contains(filename, ".") THEN FALSE
    ELSE ("." \o Lower(AfterLastDot(filename))) \in ALL_ALLOWED_EXTENSIONS

\* FileValidator.validate_filename(filename): the error, "None" for none
\* (of the white space str.strip removes, names hold the space only)
validate_filename(filename) ==
    IF filename = "" \/ \A i \in 1..Len(filename) : SubSeq(filename, i, i) = " "
    THEN "Nome de arquivo vazio."
    ELSE IF Len(filename) > 255 THEN "Nome de arquivo muito longo."
    ELSE IF \E c \in forbidden_chars : Contains(filename, c)
         THEN "Nome de arquivo contém caracteres inválidos."
         ELSE "None"

\* validate_file(file): the error, "None" for a valid file
validate_file(file) ==
    IF validate_filename(file.filename) # "None" THEN validate_filename(file.filename)
    ELSE IF ~is_allowed_extension(file.filename) THEN "Extensão de arquivo não permitida."
    ELSE IF ~(file.size <= MAX_FILE_SIZE)
         THEN "Arquivo muito grande. Tamanho máximo: 50.0 MB."
         ELSE "None"

\* the ids a row can have
Ids == 1..MaxRecords

\* StorageService.save_file_metadata: the table with the new row, to which
\* the database gives the id; created_at and updated_at default to utcnow
save_file_metadata(table, id, filename, file_path, file_type, category, tags, now) ==
    [i \in DOMAIN table \cup {id} |->
        IF i = id
        THEN [id |-> id, filename |-> filename, file_path |-> file_path,
              file_type |-> file_type, category |-> category, tags |-> tags,
              created_at |-> now, updated_at |-> now]
        ELSE table[i]]

\* StorageService.get_file_by_id: the row found, if one is
get_file_by_id(table, file_id) ==
    IF file_id \in DOMAIN table THEN [found |-> TRUE, row |-> table[file_id]]
    ELSE [found |-> FALSE]

\* StorageService.update_file_tags: whether the row was found, and the table
storage_update_file_tags(table, file_id, new_tags, now) ==
    IF file_id \notin DOMAIN table THEN [found |-> FALSE, table |-> table]
    ELSE [found |-> TRUE,
          table |-> [table EXCEPT ![file_id].tags = new_tags, ![file_id].updated_at = now]]

\* StorageService.delete_file: whether the row was found, and the table
storage_delete_file(table, file_id) ==
    IF file_id \notin DOMAIN table THEN [found |-> FALSE, table |-> table]
    ELSE [found |-> TRUE, table |-> [i \in DOMAIN table \ {file_id} |-> table[i]]]

\* the uploads of POST /process.  has_file: the form holds a part "file";
\* secure_name: what secure_filename makes of the name; size: the bytes
\* sent; guess: the media type mimetypes finds for the name; save_ok:
\* whether the file can be written to the upload folder; file: the file as
\* the analyzer of its category meets it
Uploads ==
    LET image == [img |-> [readable |-> TRUE, width |-> 100, height |-> 100,
                           format |-> "PNG", mode |-> "RGB",
                           pixel |-> [kind |-> "tuple", val |-> <<250, 10, 10>>]],
                  remote |-> BatchFiles.a_png]
        text == [txt |-> [readable |-> TRUE, content |-> "import os\ndef main(): pass",
                          more_lines |-> 0, tail |-> ""]]
        opaque == [opaque |-> TRUE]
        up(has_file, filename, size, guess, save_ok, file) ==
            [has_file |-> has_file, filename |-> filename, secure_name |-> filename,
             size |-> size, guess |-> guess, save_ok |-> save_ok, file |-> file]
    IN  {up(FALSE, "", 0, "None", TRUE, opaque),
         up(TRUE, "", 0, "None", TRUE, opaque),
         up(TRUE, "run.exe", 100, "application/x-msdownload", TRUE, opaque),
         up(TRUE, "a?.png", 100, "image/png", TRUE, image),
         up(TRUE, "big.zip", MAX_FILE_SIZE + 1, "application/zip", TRUE, opaque),
         up(TRUE, "a.png", 100, "image/png", TRUE, image),
         up(TRUE, "a.png", 100, "image/png", FALSE, image),
         up(TRUE, "App.PY", 100, "text/x-python", TRUE, text),
         up(TRUE, "b.zip", MAX_FILE_SIZE, "application/zip", TRUE, opaque),
         up(TRUE, "c.yml", 100, "None", TRUE, opaque)}

\* the bodies of PUT /<id>/tags.  json: the body is a JSON object;
\* has_tags: it holds "tags"; is_list: that is a list; strings: the list
\* holds str only
TagUpdates ==
    {[json |-> FALSE, has_tags |-> FALSE, is_list |-> FALSE, strings |-> FALSE, tags |-> <<>>],
     [json |-> TRUE, has_tags |-> FALSE, is_list |-> FALSE, strings |-> FALSE, tags |-> <<>>],
     [json |-> TRUE, has_tags |-> TRUE, is_list |-> FALSE, strings |-> FALSE, tags |-> <<>>],
     [json |-> TRUE, has_tags |-> TRUE, is_list |-> TRUE, strings |-> FALSE, tags |-> <<>>]}
    \cup {[json |-> TRUE, has_tags |-> TRUE, is_list |-> TRUE, strings |-> TRUE, tags |-> t] :
            t \in {<<>>, <<"JPG", "image", "Unknown">>, <<"zeta", "Photo", "pdf">>, <<"ERROR">>}}

\* a response of a route: the status and what the body holds
Response(op, status, body) ==
    [op |-> op, out |-> body, raised |-> FALSE, events |-> <<>>, status |-> status]

InitStorage ==
    /\ max_tags \in MaxTagsChoices
    /\ vision_flag \in BOOLEAN
    /\ vision_init \in (IF vision_flag THEN {"ok"} ELSE {"not_attempted"})
    /\ enabled = VisionService__init__(vision_flag, vision_init).enabled
    /\ client = VisionService__init__(vision_flag, vision_init).client
    /\ req = [op |-> "none"]
    /\ last = NoCall
    /\ calls = 0
    /\ workers = [w \in Workers |-> Idle]
    /\ files_secondary = <<>>
    /\ utcnow = 0

\* POST /api/files/process.  The row is stored by save_file_metadata, which
\* returns the FileModel; the handler then subscripts it (file_data["id"]),
\* which raises TypeError, and answers 500 with the row in the table
ProcessFile(upload) ==
    /\ calls < MaxOps
    /\ calls' = calls + 1
    /\ utcnow' = utcnow + 1
    /\ req' = [op |-> "process_file", upload |-> upload]
    /\ IF ~upload.has_file
       THEN /\ last' = Response("process_file", 400, "Nenhum arquivo enviado.")
            /\ UNCHANGED files_secondary
       ELSE IF upload.filename = ""
       THEN /\ last' = Response("process_file", 400, "Nome de arquivo vazio.")
            /\ UNCHANGED files_secondary
       ELSE IF validate_file(upload) # "None"
       THEN /\ last' = Response("process_file", 400, validate_file(upload))
            /\ UNCHANGED files_secondary
       ELSE IF ~upload.save_ok
       THEN /\ last' = Response("process_file", 500, "Erro ao processar o arquivo")
            /\ UNCHANGED files_secondary
       ELSE LET filename == ToString(utcnow') \o "_" \o upload.secure_name
                file_path == "uploads/" \o filename
                mime_type == get_file_type(upload.guess)
                category == get_file_category(mime_type)
            IN  \E id \in Ids \ DOMAIN files_secondary :
                \E order \in TaskOrders(upload) :
                    LET raw_tags == analyze_file(enabled, client, file_path, mime_type,
                                                 upload.file, order).out
                        final_tags == process_tags(raw_tags, max_tags)
                    IN  /\ files_secondary' =
                              save_file_metadata(files_secondary, id, filename, file_path,
                                                 mime_type, category, final_tags, utcnow')
                        /\ last' = Response("process_file", 500, "Erro ao processar o arquivo")
    /\ UNCHANGED <<max_tags, vision_flag, vision_init, enabled, client, workers>>

\* PUT /<id>/tags that stores the tags of the request as they come
UpdateFileTags_StoresRaw(file_id, data) ==
    /\ calls < MaxOps
    /\ calls' = calls + 1
    /\ utcnow' = utcnow + 1
    /\ req' = [op |-> "update_file_tags", file_id |-> file_id, data |-> data]
    /\ IF ~data.json \/ ~data.strings
       THEN /\ last' = Response("update_file_tags", IF data.json /\ ~(data.has_tags /\ data.is_list)
                                                    THEN 400 ELSE 500, "error")
            /\ UNCHANGED files_secondary
       ELSE LET updated == storage_update_file_tags(files_secondary, file_id, data.tags, utcnow')
            IN  /\ files_secondary' = updated.table
                /\ last' = Response("update_file_tags", IF updated.found THEN 200 ELSE 404,
                                    data.tags)
    /\ UNCHANGED <<max_tags, vision_flag, vision_init, enabled, client, workers>>

\* PUT /api/files/<id>/tags
UpdateFileTags(file_id, data) ==
    /\ calls < MaxOps
    /\ calls' = calls + 1
    /\ utcnow' = utcnow + 1
    /\ req' = [op |-> "update_file_tags", file_id |-> file_id, data |-> data]
    /\ IF ~data.json
       THEN /\ last' = Response("update_file_tags", 500, "Erro ao atualizar tags")
            /\ UNCHANGED files_secondary
       ELSE IF ~data.has_tags
       THEN /\ last' = Response("update_file_tags", 400, "Tags não fornecidas.")
            /\ UNCHANGED files_secondary
       ELSE IF ~data.is_list
       THEN /\ last' = Response("update_file_tags", 400, "Tags devem ser uma lista.")
            /\ UNCHANGED files_secondary
       ELSE IF ~data.strings
       THEN /\ last' = Response("update_file_tags", 500, "Erro ao atualizar tags")
            /\ UNCHANGED files_secondary
       ELSE LET processed_tags == process_tags(data.tags, max_tags)
                updated == storage_update_file_tags(files_secondary, file_id,
                                                    processed_tags, utcnow')
            IN  /\ files_secondary' = updated.table
                /\ last' = IF updated.found
                           THEN Response("update_file_tags", 200, processed_tags)
                           ELSE Response("update_file_tags", 404, "Arquivo não encontrado.")
    /\ UNCHANGED <<max_tags, vision_flag, vision_init, enabled, client, workers>>

\* DELETE /api/files/<id>
DeleteFile(file_id) ==
    /\ calls < MaxOps
    /\ calls' = calls + 1
    /\ utcnow' = utcnow + 1
    /\ req' = [op |-> "delete_file", file_id |-> file_id]
    /\ IF ~get_file_by_id(files_secondary, file_id).found
       THEN /\ last' = Response("delete_file", 404, "Arquivo não encontrado.")
            /\ UNCHANGED files_secondary
       ELSE /\ files_secondary' = storage_delete_file(files_secondary, file_id).table
            /\ last' = Response("delete_file", 200, "Arquivo removido com sucesso.")
    /\ UNCHANGED <<max_tags, vision_flag, vision_init, enabled, client, workers>>

NextStorage ==
    \/ \E upload \in Uploads : ProcessFile(upload)
    \/ \E file_id \in Ids, data \in TagUpdates : UpdateFileTags(file_id, data)
    \/ \E file_id \in Ids : DeleteFile(file_id)

SpecStorage == InitStorage /\ [][NextStorage]_vars

-----------------------------------------------------------------------------
(* Properties of the tag pipeline *)

\* the tags that reach the third stage of the pipeline for the request
Filtered == filter_tags(normalize_tags(req.tags))

\* C1: the list returned by process_tags is never longer than max_tags
C1_LengthAtMostMaxTags ==
    last.op = "process_tags" => Len(last.out) <= max_tags

\* C1 witness: more distinct tags than max_tags survive the filter and the
\* result holds exactly max_tags of them
C1_Witness ==
    /\ last.op = "process_tags"
    /\ Len(Filtered) > max_tags
    /\ Len(last.out) = max_tags

\* C2: the result of process_tags holds no stop tag and no two tags that are
\* equal when lower-cased; no synonym is rewritten to a stop tag
C2_NoStopTagNoDuplicate ==
    /\ \A k \in DOMAIN TAG_SYNONYMS : TAG_SYNONYMS[k] \notin COMMON_TAGS_TO_REMOVE
    /\ last.op = "process_tags" =>
          /\ \A i \in 1..Len(last.out) : last.out[i] \notin COMMON_TAGS_TO_REMOVE
          /\ \A i, j \in 1..Len(last.out) :
                i # j => Lower(last.out[i]) # Lower(last.out[j])

\* C2 witness: the input holds a stop tag in upper case and two spellings of
\* one tag, and one tag is returned for them
C2_Witness ==
    /\ last.op = "process_tags"
    /\ max_tags = MAX_TAGS_DEFAULT
    /\ InList("ERROR", req.tags)
    /\ InList("JPG", req.tags)
    /\ InList("jpeg", req.tags)
    /\ last.out = <<"jpeg">>

\* C3: every tag returned by process_tags is lower-case and non-empty
C3_LowerCaseNonEmpty ==
    last.op = "process_tags" =>
        \A i \in 1..Len(last.out) :
            last.out[i] = Lower(last.out[i]) /\ last.out[i] # ""

\* C4: process_tags applied to its own result returns that result
C4_Idempotent ==
    last.op = "process_tags" => process_tags(last.out, max_tags) = last.out

\* C4 witness: the first pass rewrote a synonym and truncated the list
C4_Witness ==
    /\ last.op = "process_tags"
    /\ Len(Filtered) > max_tags
    /\ InList("Photo", req.tags)
    /\ InList("image", last.out)

\* C5: merge_tags(a, b) is process_tags of a followed by b, and
\* add_custom_tags(existing, custom) is merge_tags(existing, custom)
C5_MergeIsProcessOfConcat ==
    /\ last.op = "merge_tags" =>
          last.out = process_tags(req.a \o req.b, max_tags)
    /\ last.op = "add_custom_tags" =>
          last.out = merge_tags(<<req.existing, req.custom>>, max_tags)

\* C5 witness: two non-empty lists sharing a tag are merged and the second
\* list contributes a tag to the result
C5_Witness ==
    /\ last.op = "merge_tags"
    /\ req.a = <<"Photo", "jpg">>
    /\ req.b = <<"pdf">>
    /\ last.out = <<"image", "pdf", "jpeg">>

-----------------------------------------------------------------------------
(* Properties of the category classifier *)

\* the categories get_file_category can name
Categories == {"image", "video", "audio", "document", "spreadsheet", "archive", "text", "other"}

\* the positions of the prefixes the media type starts with
MatchingPrefixes(m) == {i \in 1..Len(MIME_PREFIXES) : StartsWith(m, MIME_PREFIXES[i][1])}

\* C6: get_file_category returns one category and raises nothing; an exact
\* entry decides; failing that the first prefix, in declaration order, that
\* the type starts with; failing that 'other'
C6_CategoryTotalExactFirst ==
    last.op = "get_file_category" =>
        LET m == req.mime_type
            hits == MatchingPrefixes(m)
        IN  /\ ~last.raised
            /\ last.out \in Categories
            /\ m \in MimeExactKeys => last.out = MIME_EXACT[m]
            /\ (m \notin MimeExactKeys /\ hits # {}) =>
                  last.out = MIME_PREFIXES[CHOOSE i \in hits : \A j \in hits : i <= j][2]
            /\ (m \notin MimeExactKeys /\ hits = {}) => last.out = "other"
            /\ m = "application/pdf" => last.out = "document"
            /\ m = "image/png" => last.out = "image"
            /\ m = "application/octet-stream" => last.out = "other"

\* C6 witness: a type with no exact entry is classified by its prefix
C6_Witness ==
    /\ last.op = "get_file_category"
    /\ req.mime_type = "image/png"
    /\ last.out = "image"

-----------------------------------------------------------------------------
(* Properties of the external label augmenter *)

\* the augmenter was switched off by configuration or its client could not
\* be built
Unavailable == ~vision_flag \/ vision_init # "ok"

\* the I/O of the augmenter: the open of the image file and the remote calls
VisionIO == {"open"} \cup {RemoteCalls[i] : i \in 1..Len(RemoteCalls)}

\* C8: switched off or without a client, the augmenter is unavailable and
\* analyze_image returns the empty list with no file opened and no remote
\* call made; it is available only with the flag set and a client
C8_UnavailableReturnsEmptyNoIO ==
    /\ is_available(enabled, client) => (vision_flag /\ client # "None")
    /\ Unavailable => ~is_available(enabled, client)
    /\ last.op = "is_available" => (last.out <=> ~Unavailable)
    /\ (last.op = "vision.analyze_image" /\ Unavailable) =>
          /\ last.out = <<>>
          /\ ~last.raised
          /\ \A i \in 1..Len(last.events) : last.events[i] \notin VisionIO

\* C8 witness: the flag is set, the client could not be built, and
\* analyze_image is called on a readable image the service would label
C8_Witness ==
    /\ last.op = "vision.analyze_image"
    /\ vision_flag
    /\ vision_init = "Exception"
    /\ req.image.readable
    /\ req.image.labels.ok /\ req.image.labels.val # <<>>
    /\ last.out = <<>>
    /\ last.events = <<>>

\* the tags one sub-analysis contributes: those its body derives from the
\* response, none when the remote call failed
Contribution(reply, tags) == IF reply.ok THEN tags ELSE <<>>

\* C9: a failing sub-analysis contributes no tag and leaves the others'
\* tags in place, in the order labels, colours, text, safe search; the call
\* raises for no combination of failures, and when only the colour analysis
\* succeeds its tags alone are returned
C9_SubAnalysisFailuresIsolated ==
    last.op = "vision.analyze_image" =>
        /\ ~last.raised
        /\ (~Unavailable /\ req.image.readable) =>
              /\ last.out =
                    Contribution(req.image.labels, LabelLoop(req.image.labels.val))
                    \o Contribution(req.image.colors,
                          ColorLoop(Take(req.image.colors.val, 3), <<>>))
                    \o Contribution(req.image.text,
                          _analyze_text([ok |-> TRUE, val |-> req.image.text.val]))
                    \o Contribution(req.image.safe,
                          _analyze_safe_search([ok |-> TRUE, val |-> req.image.safe.val]))
              /\ (/\ ~req.image.labels.ok /\ ~req.image.text.ok /\ ~req.image.safe.ok
                  /\ req.image.colors.ok /\ req.image.colors.val # <<>>)
                    => last.out = <<"red">>

\* C9 witness: the colour analysis fails, and the labels, the text tags and
\* the safe-content tags are returned in that order
C9_Witness ==
    /\ last.op = "vision.analyze_image"
    /\ ~req.image.colors.ok
    /\ last.out = <<"sky", "nature", "office-building", "urban",
                    "text-content", "invoice", "contract",
                    "professional", "safe-content">>

-----------------------------------------------------------------------------
(* Properties of the local analyzers *)

\* the category of the file of the request
ReqCategory == get_file_category(req.mime_type)

\* the analyzer of the request's category met an internal failure: the
\* image cannot be opened, the document cannot be parsed or its text not
\* extracted, the text file cannot be read
AnalyzerFailed ==
    CASE ReqCategory = "image" -> ~req.file.img.readable
      [] ReqCategory = "document" -> ~req.file.pdf.readable \/ ~req.file.pdf.extract_ok
      [] ReqCategory = "text" -> ~req.file.txt.readable
      [] OTHER -> FALSE

\* the sentinels of the fallback lists
Sentinel(category) == IF category = "image" THEN "unknown" ELSE "error"

\* C7 as stated: no analyzer raises, and on an internal failure the result
\* is the category tag followed by the sentinel
C7_FallbackIsCategoryAndSentinel ==
    last.op = "analyze_file" =>
        /\ ~last.raised
        /\ AnalyzerFailed => last.out = <<ReqCategory, Sentinel(ReqCategory)>>

\* C7 amended: no analyzer raises and analyze_file always returns a
\* non-empty tag list; on an internal failure the result is image, unknown
\* for an image, text, error for a text file, and pdf, document, error for a
\* document
C7_AnalyzersNeverRaise ==
    last.op = "analyze_file" =>
        /\ ~last.raised
        /\ Len(last.out) >= 1
        /\ AnalyzerFailed =>
              last.out = CASE ReqCategory = "image" -> <<"image", "unknown">>
                           [] ReqCategory = "text" -> <<"text", "error">>
                           [] ReqCategory = "document" -> <<"pdf", "document", "error">>

\* C7 witness: a document that cannot be parsed was analyzed
C7_Witness ==
    /\ last.op = "analyze_file"
    /\ req.mime_type = "application/msword"
    /\ ~req.file.pdf.readable
    /\ last.out = <<"pdf", "document", "error">>
    /\ ~last.raised

\* the result of the image analysis for the same file with the augmenter
\* unavailable
LocalOnly == analyze_image_local(FALSE, "None", req.file).out

\* what the augmenter returns for the file of the request
AugmenterTags == vision_analyze_image(enabled, client, req.file.remote).out

\* every sub-analysis of the augmenter fails for the file, or the augmenter
\* cannot read it
AugmenterFails ==
    \/ ~req.file.remote.readable
    \/ (~req.file.remote.labels.ok /\ ~req.file.remote.colors.ok
            /\ ~req.file.remote.text.ok /\ ~req.file.remote.safe.ok)

\* C10: for a readable image the result is the local tags, as computed with
\* the augmenter unavailable, followed by the augmenter's tags as returned;
\* the image is opened and analyzed before any I/O of the augmenter; a
\* failing augmenter adds nothing and the fallback list is never returned
C10_LocalTagsFirstAndIndependent ==
    (last.op = "analyze_file" /\ ReqCategory = "image" /\ req.file.img.readable) =>
        /\ last.out = LocalOnly \o AugmenterTags
        /\ LocalOnly = LocalImageTags(req.file.img)
        /\ last.out # <<"image", "unknown">>
        /\ AugmenterFails => last.out = LocalOnly
        /\ last.events[1] = "Image.open"
        /\ \A i \in 1..Len(last.events) : last.events[i] \in VisionIO => i > 1

\* C10 witness: the augmenter is available, its label analysis fails, and
\* the local tags are followed by the tags of the other sub-analyses
C10_Witness ==
    /\ last.op = "analyze_file"
    /\ ReqCategory = "image"
    /\ is_available(enabled, client)
    /\ req.file.img.readable
    /\ req.file.remote.readable
    /\ ~req.file.remote.labels.ok
    /\ req.file.remote.colors.ok
    /\ req.file.img.width = 1920 /\ req.file.img.format = "PNG"
    /\ req.file.img.mode = "RGB" /\ req.file.img.pixel.kind = "int"
    /\ SubSeq(last.out, 1, 7) = <<"image", "png", "landscape", "wide", "high resolution", "hd", "color">>
    /\ last.out[8] = "red"
    /\ Len(last.out) > 8

-----------------------------------------------------------------------------
(* Properties of the order of the tag pipeline *)

\* the priority of a tag: its weight in TAG_PRIORITY, 0 without one
Priority(t) == IF t \in DOMAIN TAG_PRIORITY THEN TAG_PRIORITY[t] ELSE 0

\* tag a is listed before tag b: higher priority, or the same priority and
\* a later place in the lexicographic order
Before(a, b) ==
    Priority(a) > Priority(b) \/ (Priority(a) = Priority(b) /\ StrLess(b, a))

C12_ScenarioAndStageOrder ==
    last.op = "process_tags" =>
        /\ last.out = prioritize_tags(filter_tags(normalize_tags(req.tags)), max_tags)
        /\ (req.tags = ScenarioTags /\ max_tags = MAX_TAGS_DEFAULT) =>
              /\ normalize_tags(req.tags) = <<"jpeg", "image", "unknown", "jpeg">>
              /\ filter_tags(normalize_tags(req.tags)) = <<"jpeg", "image">>
              /\ prioritize_tags(filter_tags(normalize_tags(req.tags)), max_tags)
                    = <<"image", "jpeg">>
              /\ last.out = <<"image", "jpeg">>

\* C12 witness: the scenario has run under the default configuration
C12_Witness ==
    /\ last.op = "process_tags"
    /\ req.tags = ScenarioTags
    /\ max_tags = MAX_TAGS_DEFAULT
    /\ last.out = <<"image", "jpeg">>

-----------------------------------------------------------------------------
(* Properties of the document analyzer *)

\* the document of the request was parsed and its text extracted
PdfParsed ==
    /\ req.op = "analyze_file"
    /\ ReqCategory = "document"
    /\ req.file.pdf.readable
    /\ req.file.pdf.extract_ok

\* the tags of all page-count tiers
TierTags ==
    {"single-page", "flyer", "short-document", "brief", "medium-document",
     "report", "long-document", "book", "manual"}

\* the tags the claim gives a document of n pages
TierOf(n) ==
    CASE n <= 3 -> <<"single-page", "flyer">>
      [] n > 3 /\ n <= 5 -> <<"short-document", "brief">>
      [] n > 5 /\ n <= 20 -> <<"medium-document", "report">>
      [] n > 20 -> <<"long-document", "book", "manual">>

\* C13: for a parsed document the tags pdf and document are followed by the
\* tags of the tier of its page count, and what follows them is text-heavy
\* and keyword categories only: no tag of another tier is added for the
\* page count
C13_OnePageTier ==
    (last.op = "analyze_file" /\ PdfParsed) =>
        LET tier == TierOf(req.file.pdf.num_pages)
        IN  /\ Len(last.out) >= 2 + Len(tier)
            /\ SubSeq(last.out, 1, 2 + Len(tier)) = <<"pdf", "document">> \o tier
            /\ \A i \in (3 + Len(tier))..Len(last.out) :
                  last.out[i] \in {"text-heavy"} \cup {PDF_KEYWORDS[k][1] : k \in 1..Len(PDF_KEYWORDS)}
            /\ \A i \in 1..Len(last.out) :
                  (last.out[i] \in TierTags /\ ~InList(last.out[i], tier))
                      => /\ i > 2 + Len(tier)
                         /\ last.out[i] \in FoundCategories(Lower(req.file.pdf.text))

\* C13 witness: a document of 20 pages, the last page count of its tier
C13_Witness ==
    /\ last.op = "analyze_file"
    /\ PdfParsed
    /\ req.file.pdf.num_pages = 20
    /\ SubSeq(last.out, 1, 4) = <<"pdf", "document", "medium-document", "report">>

-----------------------------------------------------------------------------
(* Properties of the sub-analyses of the augmenter *)

\* the augmenter of the request ran its sub-analyses: it is available and
\* the image file could be read
AugmenterRan ==
    /\ req.op = "vision.analyze_image"
    /\ ~Unavailable
    /\ req.image.readable

\* the tags of the three sub-analyses that run before the safe-content one
TagsBeforeSafeSearch ==
    _analyze_labels(req.image.labels) \o _analyze_colors(req.image.colors)
        \o _analyze_text(req.image.text)

\* C16: the safe-content sub-analysis adds professional and safe-content,
\* and nothing else, when adult and violence are both VERY_UNLIKELY; for
\* every other pair of levels it adds nothing; the tag flagged is never
\* returned
C16_SafeContentNeverFlagged ==
    /\ last.op \in {"vision.analyze_image", "analyze_file"} => ~InList("flagged", last.out)
    /\ (last.op = "vision.analyze_image" /\ AugmenterRan /\ req.image.safe.ok) =>
          IF req.image.safe.val.adult = "VERY_UNLIKELY"
                /\ req.image.safe.val.violence = "VERY_UNLIKELY"
          THEN last.out = TagsBeforeSafeSearch \o <<"professional", "safe-content">>
          ELSE last.out = TagsBeforeSafeSearch

\* C16 witness: the remote service finds adult content likely, and the
\* sub-analysis adds nothing to the tags of the labels
C16_Witness ==
    /\ last.op = "vision.analyze_image"
    /\ AugmenterRan
    /\ req.image.safe.ok
    /\ req.image.safe.val.adult = "VERY_LIKELY"
    /\ req.image.safe.val.violence = "VERY_UNLIKELY"
    /\ req.image.labels.ok /\ req.image.labels.val # <<>>
    /\ ~req.image.colors.ok /\ ~req.image.text.ok
    /\ last.out = <<"sky", "nature", "office-building", "urban">>

\* the categories of LABEL_CATEGORIES with a keyword inside the text
MatchedCategories(text) ==
    {LABEL_CATEGORIES[i][1] : i \in
        {j \in 1..Len(LABEL_CATEGORIES) :
            \E k \in 1..Len(LABEL_CATEGORIES[j][2]) : Contains(text, LABEL_CATEGORIES[j][2][k])}}

RECURSIVE ExpectedLabelTags(_)
\* the tags the labels are to contribute, label by label: nothing below the
\* minimum confidence; otherwise the text in lower case with hyphens for
\* spaces, then the category matched, if one is
ExpectedLabelTags(annotations) ==
    IF annotations = <<>> THEN <<>>
    ELSE LET label == Head(annotations)
             text == Lower(label.description)
         IN  (IF label.score < MIN_TAG_CONFIDENCE THEN <<>>
              ELSE <<ReplaceChar(text, " ", "-")>>
                      \o (IF MatchedCategories(text) = {} THEN <<>>
                          ELSE <<_get_label_category(text)>>))
                \o ExpectedLabelTags(Tail(annotations))

\* C18: the labels sub-analysis returns, for each label at or above the
\* minimum confidence, its lower-cased hyphenated text and then a matched
\* category of the label-category table if there is one; labels below the
\* minimum contribute nothing
C18_LabelsAtOrAboveMinimum ==
    (last.op = "vision.analyze_image" /\ AugmenterRan /\ req.image.labels.ok) =>
        LET expected == ExpectedLabelTags(req.image.labels.val)
        IN  /\ Len(last.out) >= Len(expected)
            /\ SubSeq(last.out, 1, Len(expected)) = expected
            /\ last.out = expected \o _analyze_colors(req.image.colors)
                            \o _analyze_text(req.image.text)
                            \o _analyze_safe_search(req.image.safe)
            /\ \A i \in 1..Len(req.image.labels.val) :
                  LET text == Lower(req.image.labels.val[i].description)
                  IN  /\ _get_label_category(text) # "None"
                            => _get_label_category(text) \in MatchedCategories(text)
                      /\ req.image.labels.val[i].score < MIN_TAG_CONFIDENCE
                            => ~InList(ReplaceChar(text, " ", "-"), last.out)

\* C18 witness: labels above, at and below the minimum confidence are
\* returned by the remote service; the first two contribute their text and
\* their category, the third nothing
C18_Witness ==
    /\ last.op = "vision.analyze_image"
    /\ AugmenterRan
    /\ req.image.labels.ok
    /\ Len(req.image.labels.val) = 3
    /\ req.image.labels.val[2].score = MIN_TAG_CONFIDENCE
    /\ req.image.labels.val[3].score < MIN_TAG_CONFIDENCE
    /\ SubSeq(last.out, 1, 4) = <<"sky", "nature", "office-building", "urban">>
    /\ ~InList("blur", last.out)

-----------------------------------------------------------------------------
(* Properties of the image and text analyzers *)

\* the image of the request was opened
ImageRead ==
    /\ req.op = "analyze_file"
    /\ ReqCategory = "image"
    /\ req.file.img.readable

\* the orientation tags
OrientationTags == {"square", "balanced", "landscape", "wide", "portrait", "vertical"}

\* the orientation pair of a width and a height, r = width / height and
\* r = 1 for a height of 0: the comparisons of r with 0.9, 1.1, 1.5, 0.7
\* are written without the division
OrientationOf(w, h) ==
    IF h = 0 THEN <<"square", "balanced">>
    ELSE IF 9 * h <= 10 * w /\ 10 * w <= 11 * h THEN <<"square", "balanced">>
    ELSE IF 2 * w > 3 * h THEN <<"landscape", "wide">>
    ELSE IF 10 * w < 7 * h THEN <<"portrait", "vertical">>
    ELSE <<>>

\* C17: among the local tags of a readable image, the orientation tags are
\* those of the one pair the ratio selects, placed after image and the
\* format; there is none for a ratio in (1.1, 1.5] or [0.7, 0.9)
C17_OneOrientationPair ==
    (last.op = "analyze_file" /\ ImageRead) =>
        LET expected == OrientationOf(req.file.img.width, req.file.img.height)
            k == IF req.file.img.format # "None" THEN 2 ELSE 1
            local == SubSeq(last.out, 1, Len(last.out) - Len(AugmenterTags))
        IN  /\ Len(local) >= k + Len(expected)
            /\ SubSeq(local, k + 1, k + Len(expected)) = expected
            /\ \A i \in 1..Len(local) :
                  local[i] \in OrientationTags =>
                      (i > k /\ i <= k + Len(expected))

\* C17 witness: an image of ratio exactly 1.5 gets no orientation tag
C17_Witness ==
    /\ last.op = "analyze_file"
    /\ ImageRead
    /\ req.file.img.width = 15
    /\ req.file.img.height = 10
    /\ \A i \in 1..Len(last.out) : last.out[i] \notin OrientationTags

\* the text file of the request was read
TextRead ==
    /\ req.op = "analyze_file"
    /\ ReqCategory = "text"
    /\ req.file.txt.readable

\* the number of lines of the sample read: one per newline character, and
\* one more for a last line that does not end with one
LineCount(txt) ==
    LET newlines == CountChar(txt.content, "\n") + txt.more_lines + CountChar(txt.tail, "\n")
        empty == txt.content = "" /\ txt.more_lines = 0 /\ txt.tail = ""
        endsWithNewline ==
            IF txt.tail # "" THEN EndsWith(txt.tail, "\n")
            ELSE IF txt.more_lines > 0 THEN TRUE
            ELSE EndsWith(txt.content, "\n")
    IN  newlines + (IF empty \/ endsWithNewline THEN 0 ELSE 1)

\* C19: analyze_text returns large-file exactly when the sample read has
\* more than 100 lines, whichever extension rule matched
C19_LargeFileIffOver100Lines ==
    (last.op = "analyze_file" /\ TextRead) =>
        (InList("large-file", last.out) <=> LineCount(req.file.txt) > 100)

-----------------------------------------------------------------------------
(* Properties of the tag pipeline as a function of a set *)

\* the permutations of a list
Reorderings(x) ==
    {[i \in 1..Len(x) |-> x[f[i]]] :
        f \in {g \in [1..Len(x) -> 1..Len(x)] :
                \A i, j \in 1..Len(x) : i # j => g[i] # g[j]}}

\* C20: process_tags returns the same list for every permutation of its
\* input and for the input repeated, and merge_tags the same list for its
\* two lists in either order, with or without truncation
C20_OrderAndMultiplicityIrrelevant ==
    /\ last.op = "process_tags" =>
          /\ \A p \in Reorderings(req.tags) : process_tags(p, max_tags) = last.out
          /\ process_tags(req.tags \o req.tags, max_tags) = last.out
    /\ last.op = "merge_tags" =>
          last.out = merge_tags(<<req.b, req.a>>, max_tags)

\* C20 witness: three spellings of two tags of equal priority, in ascending
\* order, are cut to one tag
C20_Witness ==
    /\ last.op = "process_tags"
    /\ req.tags = <<"JPG", "jpeg", "zeta">>
    /\ max_tags = 1
    /\ last.out = <<"zeta">>
    /\ process_tags(<<"zeta", "jpeg", "JPG">>, max_tags) = <<"zeta">>

-----------------------------------------------------------------------------
(* Properties of the augmenter over the lifetime of the process *)

\* C14: no call on the augmenter changes enabled or client, so an augmenter
\* that is unavailable after its construction is unavailable after every
\* sequence of calls; the construction is not attempted again
C14_UnavailableForLifetime ==
    [][/\ enabled' = enabled
       /\ client' = client
       /\ vision_flag' = vision_flag
       /\ vision_init' = vision_init
       /\ (~is_available(enabled, client) => ~is_available(enabled', client'))]_vars

\* C14 witness: the library is missing; after two other calls a batch is
\* analyzed and comes back empty, the augmenter still unavailable
C14_Witness ==
    /\ vision_flag
    /\ vision_init = "ImportError"
    /\ calls = MaxCalls
    /\ last.op = "batch_analyze_images"
    /\ Len(req.image_paths) = 2
    /\ last.out = <<>>
    /\ ~is_available(enabled, client)

-----------------------------------------------------------------------------
(* Properties of concurrent requests *)

\* the tag lists a request gets when it is handled alone
AloneResults(task) ==
    IF task.kind = "update_tags" THEN {process_tags(task.tags, max_tags)}
    ELSE {process_tags(analyze_file(enabled, client, task.file_path, task.mime_type,
                                    task.file, order).out, max_tags) :
            order \in TaskOrders(task)}

\* C15: no step of a request writes the state the services share
\* (max_tags, enabled, client), and under every interleaving of the steps
\* of two requests each request returns the tag list it gets when it is
\* handled alone
C15_RequestsIndependent ==
    /\ [](\A w \in Workers :
            workers[w].pc = "done" => workers[w].out \in AloneResults(workers[w].task))
    /\ [][/\ max_tags' = max_tags
          /\ enabled' = enabled
          /\ client' = client]_vars

\* C15 witness: an upload of an image and a tag update that holds the tag
\* image were handled at the same time, and each returned that tag
C15_Witness ==
    /\ workers[1].pc = "done"
    /\ workers[2].pc = "done"
    /\ workers[1].overlapped
    /\ workers[2].overlapped
    /\ workers[1].task.kind = "process_file"
    /\ workers[2].task.kind = "update_tags"
    /\ InList("image", workers[1].out)
    /\ InList("image", workers[2].out)

-----------------------------------------------------------------------------
(* Properties of the synonym table *)

\* the keys TAG_SYNONYMS rewrites to another tag
RewrittenKeys ==
    {"jpg", "pic", "picture", "photo", "img", "movie", "clip", "sound", "music",
     "doc", "paper", "file", "code", "script", "dev", "frontend", "backend"}

\* C21: every tag returned by process_tags is left as it is by TAG_SYNONYMS;
\* the keys the table rewrites are the seventeen listed and none of them is
\* returned, so no returned tag is ranked by the weight of code, frontend
\* or backend
C21_OutputFixedBySynonyms ==
    /\ RewrittenKeys = {k \in DOMAIN TAG_SYNONYMS : TAG_SYNONYMS[k] # k}
    /\ {"code", "frontend", "backend"} \subseteq (DOMAIN TAG_PRIORITY \cap RewrittenKeys)
    /\ last.op = "process_tags" =>
          \A i \in 1..Len(last.out) :
              /\ last.out[i] \notin RewrittenKeys
              /\ Get(TAG_SYNONYMS, last.out[i], last.out[i]) = last.out[i]

\* C21 witness: code and backend are handed in; their synonyms are returned,
\* programming by its own weight and back-end without one
C21_Witness ==
    /\ last.op = "process_tags"
    /\ req.tags = <<"backend", "zeta", "Code">>
    /\ max_tags = MAX_TAGS_DEFAULT
    /\ last.out = <<"programming", "zeta", "back-end">>

-----------------------------------------------------------------------------
(* Properties of the categories without analyzer *)

\* the categories analyze_file has no analyzer for
NoAnalyzer == {"spreadsheet", "archive", "other"}

\* C22: for a media type of category spreadsheet, archive or other,
\* analyze_file returns the category alone and reads no file; for the
\* category other, which the default type of get_file_type has, the tag
\* pipeline turns that list into the empty list; get_file_category never
\* returns code
C22_CategoryAloneWithoutAnalyzer ==
    /\ get_file_category(get_file_type("None")) = "other"
    /\ "code" \notin Categories
    /\ last.op = "get_file_category" => last.out # "code"
    /\ (last.op = "analyze_file" /\ ReqCategory \in NoAnalyzer) =>
          /\ last.out = <<ReqCategory>>
          /\ last.events = <<>>
          /\ ~last.raised
          /\ ReqCategory = "other" => process_tags(last.out, max_tags) = <<>>

\* C22 witness: a file whose name gives no media type has been analyzed
C22_Witness ==
    /\ last.op = "analyze_file"
    /\ req.mime_type = get_file_type("None")
    /\ ReqCategory = "other"
    /\ last.out = <<"other">>
    /\ process_tags(last.out, max_tags) = <<>>

-----------------------------------------------------------------------------
(* Properties of the fallback lists in the tag pipeline *)

\* the final list the claim gives the fallback of a category
FallbackFinal(category) ==
    CASE category = "image" -> <<"image">>
      [] category = "document" -> <<"document", "pdf">>
      [] category = "text" -> <<"text">>

\* the calls on the augmenter and the I/O it performs
AugmenterEvents == VisionIO \cup {"is_available"}

\* C24 as stated: when an analyzer falls back, process_tags of its list is
\* image for an image, document and pdf for a document, text for a text
\* file, and a failed image analysis makes no call on the augmenter
C24_FallbackFinalLists ==
    (last.op = "analyze_file" /\ AnalyzerFailed) =>
        /\ process_tags(last.out, max_tags) = FallbackFinal(ReqCategory)
        /\ ReqCategory = "image" =>
              \A i \in 1..Len(last.events) : last.events[i] \notin AugmenterEvents

\* C24 amended: when an analyzer falls back, process_tags of its list is
\* the first max_tags tags of image, of document and pdf, or of text; it
\* holds no sentinel, and a failed image analysis makes no call on the
\* augmenter
C24_FallbackFinalListsUpToMaxTags ==
    (last.op = "analyze_file" /\ AnalyzerFailed) =>
        LET final == process_tags(last.out, max_tags)
        IN  /\ final = Take(FallbackFinal(ReqCategory), max_tags)
            /\ max_tags >= 2 => final = FallbackFinal(ReqCategory)
            /\ ~InList("unknown", final) /\ ~InList("error", final)
            /\ ReqCategory = "image" =>
                  \A i \in 1..Len(last.events) : last.events[i] \notin AugmenterEvents

\* C24 witness: a Word document is handed to the document analyzer, which
\* cannot parse it; the pipeline keeps document and pdf
C24_Witness ==
    /\ last.op = "analyze_file"
    /\ req.mime_type = "application/msword"
    /\ ~req.file.pdf.readable
    /\ max_tags = MAX_TAGS_DEFAULT
    /\ last.out = <<"pdf", "document", "error">>
    /\ process_tags(last.out, max_tags) = <<"document", "pdf">>

-----------------------------------------------------------------------------
(* Properties of the stored tags *)

\* a list of tags as process_tags returns them: at most max_tags long, no
\* stop tag, no two tags equal when lower-cased, in descending order of
\* (priority, tag), and left as it is by process_tags
StoredTagsOk(tags) ==
    /\ Len(tags) <= max_tags
    /\ \A i \in 1..Len(tags) : Lower(tags[i]) \notin {"unknown", "error", "other", "undefined"}
    /\ \A i, j \in 1..Len(tags) : i # j => Lower(tags[i]) # Lower(tags[j])
    /\ \A i, j \in 1..Len(tags) : i < j => Before(tags[i], tags[j])
    /\ process_tags(tags, max_tags) = tags

\* the step is a request of the route op
StepOf(op) == calls' = calls + 1 /\ req'.op = op

\* the tag lists process_tags can return for the body of a tag update
UpdatedTags(data) ==
    LET whole == SortedDesc(filter_tags(normalize_tags(data.tags)))
    IN  SubSeq(whole, 1, IF Len(whole) < max_tags THEN Len(whole) ELSE max_tags)

\* C23: the tags of every row are a list process_tags returns; a tag
\* update of a row replaces its tags by process_tags of the new tags, sets
\* updated_at and changes nothing else in the table; an update or a delete
\* of an id without row changes nothing; an upload and a delete leave the
\* other rows as they are
C23_StoredTagsAreProcessed ==
    /\ [](\A id \in DOMAIN files_secondary : StoredTagsOk(files_secondary[id].tags))
    /\ [][StepOf("update_file_tags") =>
            IF req'.file_id \in DOMAIN files_secondary
                  /\ req'.data.json /\ req'.data.has_tags /\ req'.data.is_list
                  /\ req'.data.strings
            THEN /\ DOMAIN files_secondary' = DOMAIN files_secondary
                 /\ \A id \in DOMAIN files_secondary :
                       IF id = req'.file_id
                       THEN files_secondary'[id] =
                              [files_secondary[id] EXCEPT
                                  !.tags = UpdatedTags(req'.data),
                                  !.updated_at = files_secondary'[id].updated_at]
                       ELSE files_secondary'[id] = files_secondary[id]
            ELSE files_secondary' = files_secondary]_vars
    /\ [][(StepOf("delete_file") /\ req'.file_id \notin DOMAIN files_secondary)
            => files_secondary' = files_secondary]_vars
    /\ [][(StepOf("delete_file") \/ StepOf("process_file")) =>
            \A id \in DOMAIN files_secondary \cap DOMAIN files_secondary' :
                files_secondary'[id] = files_secondary[id]]_vars

\* C23 witness: two files were uploaded and the tags of the first were then
\* updated; its row holds the processed tags and the time of the update,
\* the other row the tags of its upload
C23_Witness ==
    /\ DOMAIN files_secondary = {1, 2}
    /\ last.op = "update_file_tags"
    /\ last.status = 200
    /\ req.file_id = 1
    /\ req.data.tags = <<"JPG", "image", "Unknown">>
    /\ max_tags = MAX_TAGS_DEFAULT
    /\ files_secondary[1].tags = <<"image", "jpeg">>
    /\ files_secondary[1].updated_at > files_secondary[1].created_at
    /\ files_secondary[2].category = "text"
    /\ files_secondary[2].tags = <<"programming", "python", "text">>
    /\ files_secondary[2].updated_at = files_secondary[2].created_at

====
